---- MODULE Spec2Model ----
(***************************************************************************)
(* Model of the retrieval-augmented chat endpoint of ai-backend-vercel.    *)
(*                                                                         *)
(* The repository holds three revisions of the chat handler:               *)
(*   "api"    src/api/rag-chat.mjs 209-344  (intent router, external       *)
(*            adapters, similarity gate, PRIMARY/FALLBACK generation)      *)
(*   "keyed"  src/rag-chat.mjs 230-333      (app key, daily rate limit,    *)
(*            clamped context, one retry on PRIMARY)                       *)
(*   "plain"  src/rag-chat.mjs 27-87        (first revision, no guards)    *)
(* A deployment serves one of them (variable rev).                         *)
(*                                                                         *)
(* Text of a chat message is a sequence of one-character strings, so that  *)
(* trimming, lower-casing and substring matching are computed.  A string   *)
(* field of a retrieved record is a pair of a tag and a length (StrVal),   *)
(* so that slicing and concatenation lengths are computed.                 *)
(***************************************************************************)
EXTENDS Integers, Sequences, FiniteSets, TLC

(***************************************************************************)
(* Bounds of the model                                                     *)
(***************************************************************************)
\* requests one (day, ip) counter is driven through beyond the ceiling
MaxOver == 1
\* last calendar day the model reaches (days are 1..MaxDay)
MaxDay == 2
\* requests in flight at once in the specification of the rate limiter
MaxConc == 2
\* rows the match_services procedure returns at most (it is opaque to the
\* handlers: nothing in the repository holds it to match_count)
MaxRecs == 16
\* requests kept side by side in the specification of the embedding uses
MaxUses == 2

(***************************************************************************)
(* Program constants                                                       *)
(***************************************************************************)
\* src/rag-chat.mjs:118  Number(process.env.MAX_REQ_PER_IP_DAY || 200);
\* the deployment modelled sets the environment variable to 2
MAX_REQ_PER_IP_DAY == 2
\* src/rag-chat.mjs:119
MAX_MSG_LEN == 1200
\* src/rag-chat.mjs:120
MAX_CONTEXT_LEN == 3000
\* src/api/rag-chat.mjs:16  default of MIN_SIM, in hundredths
MIN_SIM_DEFAULT == 22

(***************************************************************************)
(* Small arithmetic and sequence helpers                                   *)
(***************************************************************************)
Min(a, b) == IF a <= b THEN a ELSE b

Max(a, b) == IF a >= b THEN a ELSE b

\* Array.prototype.slice(0, n) / String.prototype.slice(0, n), n >= 0
SliceTo(s, n) == SubSeq(s, 1, Min(Len(s), n))

\* Array.prototype.slice(-n): the last n elements
SliceLast(s, n) == SubSeq(s, Max(1, Len(s) - n + 1), Len(s))

RECURSIVE Reverse(_)
Reverse(s) == IF s = <<>> THEN <<>> ELSE Append(Reverse(Tail(s)), Head(s))

RECURSIVE Concat(_)
\* flattening of a sequence of sequences ([...a, ...b, ...c])
Concat(ss) == IF ss = <<>> THEN <<>> ELSE Head(ss) \o Concat(Tail(ss))

RECURSIVE SumSeq(_)
SumSeq(s) == IF s = <<>> THEN 0 ELSE Head(s) + SumSeq(Tail(s))

(***************************************************************************)
(* Message text: sequences of characters                                   *)
(***************************************************************************)
WhiteSpace == {" ", "\t", "\n"}

UpperCase == <<"A","B","C","D","E","F","G","H","I","J","K","L","M",
               "N","O","P","Q","R","S","T","U","V","W","X","Y","Z">>

LowerCase == <<"a","b","c","d","e","f","g","h","i","j","k","l","m",
               "n","o","p","q","r","s","t","u","v","w","x","y","z">>

LowerChar(c) ==
    IF \E i \in 1..26 : UpperCase[i] = c
    THEN LowerCase[CHOOSE i \in 1..26 : UpperCase[i] = c]
    ELSE c

\* String.prototype.toLowerCase
toLowerCase(t) == [i \in 1..Len(t) |-> LowerChar(t[i])]

RECURSIVE TrimStart(_)
TrimStart(t) ==
    IF t # <<>> /\ Head(t) \in WhiteSpace THEN TrimStart(Tail(t)) ELSE t

\* String.prototype.trim
Trim(t) == Reverse(TrimStart(Reverse(TrimStart(t))))

\* String.prototype.includes
Includes(q, k) ==
    \E i \in 0..(Len(q) - Len(k)) : SubSeq(q, i + 1, i + Len(k)) = k

\* const notEmpty = (x) => x != null && String(x).trim().length > 0;
notEmpty(x) == Len(Trim(x)) > 0

(***************************************************************************)
(* Intent router, src/api/rag-chat.mjs 66-80                               *)
(***************************************************************************)
\* src/api/rag-chat.mjs:70 (a character outside ASCII is written uXXXX)
weather ==
    << <<"w","e","a","t","h","e","r">>,
       <<"m","u00E9","t","u00E9","o">>,
       <<"m","e","t","e","o">>,
       <<"f","o","r","e","c","a","s","t">>,
       <<"p","l","u","i","e">>,
       <<"r","a","i","n">>,
       <<"t","e","m","p","u00E9","r","a","t","u","r","e">>,
       <<"u0637","u0642","u0633">>,
       <<"u0627","u0644","u0637","u0642","u0633">> >>

\* src/api/rag-chat.mjs:73
dirs ==
    << <<"b","u","s">>,
       <<"t","r","a","i","n">>,
       <<"t","r","a","m">>,
       <<"d","i","r","e","c","t","i","o","n">>,
       <<"i","t","i","n","u00E9","r","a","i","r","e">>,
       <<"i","t","i","n","e","r","a","i","r","e">>,
       <<"r","o","u","t","e">>,
       <<"t","r","a","n","s","p","o","r","t">>,
       <<"o","n","c","f">>,
       <<"c","t","m">>,
       <<"s","t","a","t","i","o","n">>,
       <<"g","a","r","e">>,
       <<"u0645","u062D","u0637","u0629">>,
       <<"u0637","u0631","u064A","u0642">>,
       <<"u0643","u064A","u0641"," ","u0623","u0635","u0644">>,
       <<"f","r","o","m"," ">>,
       <<" ","t","o"," ">> >>

\* src/api/rag-chat.mjs:76
web ==
    << <<"l","a","t","e","s","t">>,
       <<"n","o","w">>,
       <<"o","p","e","n","i","n","g"," ","h","o","u","r","s">>,
       <<"p","r","i","x">>,
       <<"p","r","i","c","e">>,
       <<"r","e","v","i","e","w","s">>,
       <<"r","e","v","i","e","w">>,
       <<"w","h","a","t"," ","i","s">>,
       <<"w","h","o"," ","i","s">>,
       <<"u062E","u0628","u0631"," ","u0627","u0644","u0622","u0646">>,
       <<"u0623","u062D","u062F","u062B">> >>


\* array.some(k => q.includes(k))
SomeIncluded(q, ks) == \E i \in 1..Len(ks) : Includes(q, ks[i])

\* the router with the web keywords tried first
routeIntent_webFirst(text) ==
    LET q == toLowerCase(text)
    IN  IF SomeIncluded(q, web) THEN "web"
        ELSE IF SomeIncluded(q, weather) THEN "weather"
        ELSE IF SomeIncluded(q, dirs) THEN "directions"
        ELSE "app_data"

\* function routeIntent(text)
routeIntent(text) ==
    LET q == toLowerCase(text)
    IN  IF SomeIncluded(q, weather) THEN "weather"
        ELSE IF SomeIncluded(q, dirs) THEN "directions"
        ELSE IF SomeIncluded(q, web) THEN "web"
        ELSE "app_data"

(***************************************************************************)
(* Directions templates, src/api/rag-chat.mjs 119-128                      *)
(***************************************************************************)
\* \w of a JavaScript regular expression without the u flag
WordChar(c) ==
    \/ \E i \in 1..26 : c = UpperCase[i] \/ c = LowerCase[i]
    \/ c \in {"0","1","2","3","4","5","6","7","8","9","_"}

\* \b before position i of t, where t[i] is a word character
BoundaryBefore(t, i) == i = 1 \/ ~WordChar(t[i - 1])

\* /<b?>k1\s+(.+?)\s+k2\s+(.+?)$/i : k1 at position i (after a word boundary
\* when bounded), white space, a non-empty capture without line breaks,
\* white space, one of the words k2s, white space, a non-empty rest
MatchesTemplate(t, k1, k2s, bounded) ==
    LET q == toLowerCase(t)
        L == Len(t)
    IN  \E i \in 1..L :
          /\ i + Len(k1) - 1 <= L
          /\ SubSeq(q, i, i + Len(k1) - 1) = k1
          /\ bounded => BoundaryBefore(t, i)
          /\ \E a \in (i + Len(k1) + 1)..L : \E b \in a..L :
               \E k \in 1..Len(k2s) : \E c \in (b + 2)..L :
                 \* white space i+Len(k1) .. a-1, capture a..b
                 /\ \A j \in (i + Len(k1))..(a - 1) : t[j] \in WhiteSpace
                 /\ \A j \in a..b : t[j] # "\n"
                 \* white space b+1 .. c-1, then k2 at c
                 /\ \A j \in (b + 1)..(c - 1) : t[j] \in WhiteSpace
                 /\ c + Len(k2s[k]) - 1 <= L
                 /\ SubSeq(q, c, c + Len(k2s[k]) - 1) = k2s[k]
                 \* white space after k2, then at least one character to $
                 /\ \E d \in (c + Len(k2s[k]) + 1)..L :
                      /\ \A j \in (c + Len(k2s[k]))..(d - 1) : t[j] \in WhiteSpace
                      /\ \A j \in d..L : t[j] # "\n"

\* function parseFromTo(text): TRUE when one of the three templates matches
\* (the handler only tests the result for null before the geocoding calls)
parseFromTo(text) ==
    LET t == Trim(text)
    IN  \/ MatchesTemplate(t, <<"f","r","o","m">>, << <<"t","o">> >>, TRUE)
        \/ MatchesTemplate(t, <<"d","e">>, << <<"u00E0">>, <<"a">> >>, TRUE)
        \/ MatchesTemplate(t, <<"u0645","u0646">>,
                           << <<"u0625","u0644","u0649">> >>, FALSE)

(***************************************************************************)
(* Strings of retrieved records: a tag and a length                        *)
(***************************************************************************)
Str(tag, len) == [s |-> tag, n |-> len]

\* null / undefined
Null == [s |-> "null", n |-> 0 - 1]

\* a literal of the source, len characters long
Lit(tag, len) == [s |-> tag, n |-> len]

\* JavaScript truthiness of a string field
Truthy(v) == v # Null /\ v.n > 0

\* const trim = (s, n = 300) => (s || '').toString().slice(0, n);
trim(v, len) ==
    IF ~Truthy(v) THEN Str("", 0)
    ELSE IF v.n <= len THEN v
    ELSE Str(v.s, len)

\* a ?? b ?? c ?? d
Coalesce(vs, dflt) ==
    IF \E i \in 1..Len(vs) : vs[i] # Null
    THEN vs[CHOOSE i \in 1..Len(vs) :
                vs[i] # Null /\ \A j \in 1..(i - 1) : vs[j] = Null]
    ELSE dflt

(***************************************************************************)
(* Name resolution                                                         *)
(***************************************************************************)
Langs == {"en", "fr", "ar"}

\* src/rag-chat.mjs 215-227: the per-language field orders of pickServiceName
\* and pickNewsTitle (a record keeps name_* and title_* in fields fr, en, ar)
pickServiceName(lang) ==
    CASE lang = "fr" -> <<"fr", "en", "ar">>
      [] lang = "ar" -> <<"ar", "fr", "en">>
      [] OTHER       -> <<"en", "fr", "ar">>

\* src/rag-chat.mjs 204-213: first truthy field in the order, '' when none
languagePreference(order, record) ==
    IF \E i \in 1..3 : Truthy(record[order[i]])
    THEN record[order[CHOOSE i \in 1..3 :
                   Truthy(record[order[i]])
                   /\ \A j \in 1..(i - 1) : ~Truthy(record[order[j]])]]
    ELSE Str("", 0)

\* h.name_fr ?? h.name_en ?? h.name_ar (src/api/rag-chat.mjs 303-306 and
\* 332-335, src/rag-chat.mjs 51-54 and 76-79): French first, whatever the
\* request's language
nameFrEnAr(record) == <<record.fr, record.en, record.ar>>

(***************************************************************************)
(* Retrieved records and datastore contents                                *)
(***************************************************************************)
Cats == {"services", "news", "stadiums", "places"}

\* the order of the Promise.all array
CatOrder == <<"services", "news", "stadiums", "places">>

Rec(id, sim, fr, en, ar, address, phone, capacity) ==
    [id |-> id, similarity |-> sim, fr |-> fr, en |-> en, ar |-> ar,
     address |-> address, phone |-> phone, capacity |-> capacity]

World(services, news, stadiums, places) ==
    [services |-> services, news |-> news, stadiums |-> stadiums,
     places |-> places]

\* what the four match_* procedures can return (similarity in hundredths)
Worlds ==
    { World(<<>>, <<>>, <<>>, <<>>),
      World(<< Rec(1, 10, Str("A", 1), Str("B", 1), Str("C", 1),
                   Str("addr", 12), Str("tel", 10), Null),
               Rec(2, 5, Null, Str("B", 1), Null, Null, Null, Null) >>,
            <<>>, <<>>, <<>>),
      World(<< Rec(1, 30, Str("A", 1), Str("B", 1), Str("C", 1),
                   Str("addr", 12), Str("tel", 10), Null),
               Rec(2, 10, Null, Str("B", 1), Null, Null, Null, Null) >>,
            <<>>, <<>>, <<>>),
      World(<< Rec(1, 22, Str("A", 1), Str("B", 1), Str("C", 1),
                   Str("addr", 12), Null, Null) >>,
            << Rec(2, 10, Str("", 0), Str("T", 5), Null, Null, Null, Null) >>,
            << Rec(3, 5, Null, Null, Str("S", 6), Null, Null, Str("cap", 5)) >>,
            << Rec(4, 0, Null, Null, Null, Null, Null, Null) >>),
      World([i \in 1..MaxRecs |->
               Rec(i, 0, Str("long", 100), Null, Null,
                   Str("addr", 120), Str("tel", 40), Null)],
            << Rec(2, 0 - 5, Str("title", 3100), Null, Null, Null, Null, Null) >>,
            << Rec(3, 0, Str("S", 6), Null, Null, Null, Null, Str("cap", 25)) >>,
            <<>>) }

(***************************************************************************)
(* Context assembly                                                        *)
(***************************************************************************)
\* one field of a line after clamping: which field, and the text kept
Part(field, v) == [field |-> field, v |-> v]

\* a formatted line: its record, its fields, and its length in characters
Line(type, h, parts, len) ==
    [type |-> type, id |-> h.id, parts |-> parts, n |-> len, at |-> 0]

RECURSIVE PlaceLines(_, _)
\* lines.join('\n'): each line gets its offset; at is the offset of the first
PlaceLines(lines, at) ==
    IF lines = <<>> THEN <<>>
    ELSE <<[Head(lines) EXCEPT !.at = at]>>
         \o PlaceLines(Tail(lines), at + Head(lines).n + 1)

\* const sec = (title, lines) =>
\*   lines.length ? `\n${title}:\n${lines.join('\n')}` : '';
\* appended to a context ctx = [lines, n]; titleLen is the title's length
sec(ctx, titleLen, lines) ==
    IF lines = <<>> THEN ctx
    ELSE [lines |-> ctx.lines \o PlaceLines(lines, ctx.n + 1 + titleLen + 2),
          n |-> ctx.n + 1 + titleLen + 2
                + SumSeq([i \in 1..Len(lines) |-> lines[i].n])
                + (Len(lines) - 1)]

EmptyContext == [lines |-> <<>>, n |-> 0]

\* context.slice(0, len): lines starting at or after len are cut off, the
\* line across len is cut short
sliceContext(ctx, len) ==
    IF ctx.n <= len THEN ctx
    ELSE LET kept == SelectSeq(ctx.lines, LAMBDA l : l.at < len)
         IN  [lines |-> [i \in 1..Len(kept) |->
                           [kept[i] EXCEPT !.n = Min(@, len - kept[i].at)]],
              n |-> len]

\* (x.data ?? []) of one settled call
DataOf(rq, c) == IF rq.rpc[c] = "ok" THEN rq.data[c] ELSE <<>>

\* src/api/rag-chat.mjs 302-307
apiContext(rq) ==
    LET nm(h, dflt) == trim(Coalesce(nameFrEnAr(h), dflt), 80)
        s1 == [i \in 1..Len(DataOf(rq, "services")) |->
                 LET h  == DataOf(rq, "services")[i]
                     a  == nm(h, Lit("Service", 7))
                     b  == trim(Coalesce(<<h.address>>, Str("", 0)), 80)
                     p  == trim(h.phone, 30)
                 IN  Line("service", h,
                          <<Part("name", a), Part("address", b)>>
                            \o (IF Truthy(h.phone) THEN <<Part("phone", p)>>
                                ELSE <<>>),
                          2 + a.n + 3 + b.n + 1
                            + (IF Truthy(h.phone) THEN 8 + p.n + 1 ELSE 0))]
        s2 == [i \in 1..Len(DataOf(rq, "places")) |->
                 LET h == DataOf(rq, "places")[i]
                     a == nm(h, Str("", 0))
                 IN  Line("place", h, <<Part("name", a)>>, 2 + a.n + 10)]
        s3 == [i \in 1..Len(DataOf(rq, "stadiums")) |->
                 LET h == DataOf(rq, "stadiums")[i]
                     a == nm(h, Str("", 0))
                     c == trim(h.capacity, 20)
                 IN  Line("stadium", h,
                          <<Part("name", a)>>
                            \o (IF Truthy(h.capacity)
                                THEN <<Part("capacity", c)>> ELSE <<>>),
                          2 + a.n + 8
                            + (IF Truthy(h.capacity) THEN 12 + c.n ELSE 0))]
        s4 == [i \in 1..Len(DataOf(rq, "news")) |->
                 LET h == DataOf(rq, "news")[i]
                     a == trim(Coalesce(nameFrEnAr(h), Str("", 0)), 100)
                 IN  Line("news", h, <<Part("title", a)>>, 2 + a.n)]
    IN  sec(sec(sec(sec(EmptyContext, 8, s1), 15, s2), 17, s3), 4, s4)

\* src/rag-chat.mjs 271-286
keyedContext(rq) ==
    LET nm(h) == languagePreference(pickServiceName(rq.language), h)
        s1 == [i \in 1..Len(DataOf(rq, "services")) |->
                 LET h  == DataOf(rq, "services")[i]
                     a  == trim(IF Truthy(nm(h)) THEN nm(h)
                                ELSE Lit("Service", 7), 80)
                     b  == trim(Coalesce(<<h.address>>, Str("", 0)), 80)
                     p  == trim(h.phone, 30)
                 IN  Line("service", h,
                          <<Part("name", a), Part("address", b)>>
                            \o (IF Truthy(h.phone) THEN <<Part("phone", p)>>
                                ELSE <<>>),
                          2 + a.n + 3 + b.n + 1
                            + (IF Truthy(h.phone) THEN 3 + p.n + 1 ELSE 0))]
        s2 == [i \in 1..Len(DataOf(rq, "places")) |->
                 LET h == DataOf(rq, "places")[i]
                     a == trim(nm(h), 80)
                 IN  Line("place", h, <<Part("name", a)>>, 2 + a.n + 10)]
        s3 == [i \in 1..Len(DataOf(rq, "stadiums")) |->
                 LET h == DataOf(rq, "stadiums")[i]
                     a == trim(nm(h), 80)
                     c == trim(h.capacity, 20)
                 IN  Line("stadium", h,
                          <<Part("name", a)>>
                            \o (IF Truthy(h.capacity)
                                THEN <<Part("capacity", c)>> ELSE <<>>),
                          2 + a.n + 8
                            + (IF Truthy(h.capacity) THEN 12 + c.n ELSE 0))]
        s4 == [i \in 1..Len(DataOf(rq, "news")) |->
                 LET h == DataOf(rq, "news")[i]
                     a == trim(nm(h), 100)
                 IN  Line("news", h, <<Part("title", a)>>, 2 + a.n)]
    IN  sliceContext(sec(sec(sec(sec(EmptyContext, 8, s1), 6, s2), 8, s3), 4, s4),
                     MAX_CONTEXT_LEN)

\* `${v ?? ''}`
OrEmpty(v) == IF v = Null THEN Str("", 0) ELSE v

\* src/rag-chat.mjs 50-60
plainContext(rq) ==
    LET nm(h, dflt) == Coalesce(nameFrEnAr(h), dflt)
        s1 == [i \in 1..Len(DataOf(rq, "services")) |->
                 LET h == DataOf(rq, "services")[i]
                     a == nm(h, Lit("Service", 7))
                     b == OrEmpty(h.address)
                     p == OrEmpty(h.phone)
                 IN  Line("service", h,
                          <<Part("name", a), Part("address", b), Part("phone", p)>>,
                          2 + a.n + 3 + b.n + 9 + p.n + 1)]
        s2 == [i \in 1..Len(DataOf(rq, "places")) |->
                 LET h == DataOf(rq, "places")[i]
                     a == nm(h, Str("", 0))
                 IN  Line("place", h, <<Part("name", a)>>, 2 + a.n + 10)]
        s3 == [i \in 1..Len(DataOf(rq, "stadiums")) |->
                 LET h == DataOf(rq, "stadiums")[i]
                     a == nm(h, Str("", 0))
                     c == OrEmpty(h.capacity)
                 IN  Line("stadium", h,
                          <<Part("name", a), Part("capacity", c)>>,
                          2 + a.n + 8 + 12 + c.n)]
        s4 == [i \in 1..Len(DataOf(rq, "news")) |->
                 LET h == DataOf(rq, "news")[i]
                     a == nm(h, Str("", 0))
                 IN  Line("news", h, <<Part("title", a)>>, 2 + a.n)]
    IN  sec(sec(sec(sec(EmptyContext, 8, s1), 15, s2), 17, s3), 4, s4)

(***************************************************************************)
(* Texts shown to the caller: a message and the language it is written in  *)
(***************************************************************************)
Text(msg, lang) == [msg |-> msg, lang |-> lang]

NoText == Text("", "")

\* src/api/rag-chat.mjs 36-45
domainRefusal(lang) ==
    CASE lang = "fr" -> Text("domainRefusal", "fr")
      [] lang = "ar" -> Text("domainRefusal", "ar")
      [] OTHER       -> Text("domainRefusal", "en")

\* the message of the missing directions key, in English for every language
directionsNotConfigured_english(lang) == Text("directionsNotConfigured", "en")

\* src/api/rag-chat.mjs 159-166: OPENROUTESERVICE_API_KEY is not set
directionsNotConfigured(lang) ==
    IF lang = "fr" THEN Text("directionsNotConfigured", "fr")
    ELSE IF lang = "ar" THEN Text("directionsNotConfigured", "ar")
    ELSE Text("directionsNotConfigured", "en")

\* src/api/rag-chat.mjs 170-177: no "from X to Y" template matched
directionsUsage(lang) ==
    IF lang = "fr" THEN Text("directionsUsage", "fr")
    ELSE IF lang = "ar" THEN Text("directionsUsage", "ar")
    ELSE Text("directionsUsage", "en")

\* src/api/rag-chat.mjs 187-194: SERPAPI_API_KEY is not set
webNotConfigured(lang) ==
    IF lang = "fr" THEN Text("webNotConfigured", "fr")
    ELSE IF lang = "ar" THEN Text("webNotConfigured", "ar")
    ELSE Text("webNotConfigured", "en")

\* src/rag-chat.mjs 151-156: messages[lang] || messages.en
tooManyRequests(lang) ==
    IF lang \in {"en", "fr", "ar"} THEN Text("tooManyRequests", lang)
    ELSE Text("tooManyRequests", "en")

\* src/rag-chat.mjs 308-312
rateLimitReached(lang) ==
    IF lang = "fr" THEN Text("rateLimitReached", "fr")
    ELSE IF lang = "ar" THEN Text("rateLimitReached", "ar")
    ELSE Text("rateLimitReached", "en")

\* result.response?.text() ?? '...' of a generation call that returned
\* (src/api/rag-chat.mjs 63, src/rag-chat.mjs 71, 299, 306)
ModelText(model, outcome) ==
    IF outcome = "ok" THEN Text(model, "answer") ELSE Text("...", "literal")

Digits == <<"0", "1", "2", "3", "4", "5", "6", "7", "8", "9">>

IsDigit(c) == \E d \in 1..10 : Digits[d] = c

DigitValue(c) == (CHOOSE d \in 1..10 : Digits[d] = c) - 1

RECURSIVE Number(_)
\* Number(m[1]) of a run of decimal digits
Number(ds) ==
    IF ds = <<>> THEN 0
    ELSE 10 * Number(SubSeq(ds, 1, Len(ds) - 1)) + DigitValue(ds[Len(ds)])

\* the end of the longest run of digits that starts at i
RunEnd(s, i) ==
    CHOOSE j \in i..Len(s) :
        /\ \A k \in i..j : IsDigit(s[k])
        /\ j = Len(s) \/ ~IsDigit(s[j + 1])

\* the strings of retryDelay in the RetryInfo of a 429: none, "7s", "7.5s"
RetryDelays == { <<>>, <<"7", "s">>, <<"7", ".", "5", "s">> }

\* src/api/rag-chat.mjs 50-58: /(\d+)s/.exec(retry.retryDelay), the leftmost
\* run of digits followed by "s", times 1000; 4000 when the error carries no
\* retryDelay (the empty string here) or nothing matches
getRetryDelayMs(retryDelay) ==
    LET matches == {i \in 1..Len(retryDelay) :
                      /\ IsDigit(retryDelay[i])
                      /\ RunEnd(retryDelay, i) < Len(retryDelay)
                      /\ retryDelay[RunEnd(retryDelay, i) + 1] = "s"}
        first == CHOOSE i \in matches : \A j \in matches : i <= j
    IN  IF matches # {}
        THEN Number(SubSeq(retryDelay, first, RunEnd(retryDelay, first))) * 1000
        ELSE 4000

(***************************************************************************)
(* Embedding cache, src/rag-chat.mjs 162-178                               *)
(***************************************************************************)
\* getCachedEmbedding(text): the row of the text's hash, null when there is
\* none; a cache is the set of the texts that have a row
getCachedEmbedding(cache, text) == text \in cache

\* embedOnce(text): the vector of the cache when there is one; otherwise the
\* embedding service is called and the vector is stored.  The result names
\* the cache afterwards and whether the service was called.  No handler of
\* the repository calls embedOnce.
embedOnce(cache, text) ==
    IF getCachedEmbedding(cache, text)
    THEN [cache |-> cache, called |-> FALSE]
    ELSE [cache |-> cache \cup {text}, called |-> TRUE]

(***************************************************************************)
(* Requests                                                                *)
(***************************************************************************)
Turn(role, content) == [role |-> role, content |-> content]

tBlank == <<" ", " ">>

tHelp == <<"h","e","l","p">>

tOk == <<"o","k">>

tTrain == <<"t","r","a","i","n">>

tBus == <<"b","u","s">>

tFromTo == <<"f","r","o","m"," ","a"," ","t","o"," ","b">>

tNow == <<"n","o","w">>

\* the bodies' messages arrays sent to the revision with the intent router
ApiMessageLists ==
    { <<>>,
      << Turn("user", tBlank) >>,
      << Turn("user", tHelp) >>,
      << Turn("user", tHelp), Turn("assistant", tOk) >>,
      << Turn("user", tHelp), Turn("assistant", tOk), Turn("assistant", tOk) >>,
      << Turn("user", tTrain) >>,
      << Turn("user", tBus) >>,
      << Turn("user", tFromTo) >>,
      << Turn("user", tNow) >> }

\* the bodies' messages arrays sent to the revisions without it
MessageLists ==
    { <<>>,
      << Turn("user", tBlank) >>,
      << Turn("assistant", tOk) >>,
      << Turn("user", tHelp) >>,
      << Turn("user", tHelp), Turn("assistant", tOk) >>,
      << Turn("user", tHelp), Turn("assistant", tOk), Turn("assistant", tOk) >> }

Methods == {"POST", "OPTIONS", "GET"}

NoResp ==
    [status |-> 0, error |-> "", message |-> NoText, output_text |-> NoText,
     sources |-> <<>>]

Idle ==
    [pc |-> "idle", method |-> "", keyOk |-> FALSE, ip |-> "", day |-> 0,
     chat_id |-> FALSE, language |-> "en", messages |-> <<>>,
     allowExternal |-> FALSE, lastUser |-> <<>>, intent |-> "",
     world |-> World(<<>>, <<>>, <<>>, <<>>),
     rpc |-> [c \in Cats |-> "unsent"], data |-> [c \in Cats |-> <<>>],
     gate |-> "none", context |-> EmptyContext, history |-> <<>>,
     calls |-> <<>>, gen |-> <<>>, saved |-> <<>>, retryDelay |-> <<>>,
     waitMs |-> 0, waited |-> 0,
     rank |-> 0, count |-> 0, output |-> NoText, sources |-> <<>>,
     resp |-> NoResp]

\* [...messages].reverse().find(m => m.role === 'user')?.content || ''
LastUser(messages) ==
    LET rev_ == Reverse(messages)
    IN  IF \E i \in 1..Len(rev_) : rev_[i].role = "user"
        THEN rev_[CHOOSE i \in 1..Len(rev_) :
                    rev_[i].role = "user"
                    /\ \A j \in 1..(i - 1) : rev_[j].role # "user"].content
        ELSE <<>>

(***************************************************************************)
(* State                                                                   *)
(***************************************************************************)
VARIABLES
    rev,          \* the handler revision the deployment serves
    env,          \* process.env of the deployment
    day,          \* today's date, new Date().toISOString().slice(0,10)
    request_log,  \* rows of table request_log, counted per <<day, ip>>
    req           \* the requests: inputs, locals, position and response

vars == <<rev, env, day, request_log, req>>

\* process.env of the deployments of revision "api" (MIN_SIM in hundredths)
ApiEnvs ==
    { [STRICT_DOMAIN |-> FALSE, MIN_SIM |-> MIN_SIM_DEFAULT,
       ORS_KEY |-> FALSE, SERPAPI_KEY |-> FALSE],
      [STRICT_DOMAIN |-> TRUE, MIN_SIM |-> MIN_SIM_DEFAULT,
       ORS_KEY |-> TRUE, SERPAPI_KEY |-> TRUE],
      [STRICT_DOMAIN |-> TRUE, MIN_SIM |-> 0,
       ORS_KEY |-> TRUE, SERPAPI_KEY |-> FALSE] }

\* the other revisions read none of these variables
OtherEnv == CHOOSE e \in ApiEnvs : ~e.STRICT_DOMAIN

Days == 1..MaxDay

IPs == {"10.0.0.1", "10.0.0.2"}

(***************************************************************************)
(* Building blocks of the handler steps                                    *)
(***************************************************************************)
Update(r, rq) == req' = [req EXCEPT ![r] = rq]

\* an external call (or a pipeline stage) the request performs
Called(rq, op) == [rq EXCEPT !.calls = Append(@, op)]

\* res.status(status).json({ error, message })
Fail(rq, status, error, message) ==
    [rq EXCEPT !.pc = "done",
               !.resp = [status |-> status, error |-> error,
                         message |-> message, output_text |-> NoText,
                         sources |-> <<>>]]

\* res.status(200).json({ output_text, sources })
Succeed(rq, output_text, sources) ==
    [rq EXCEPT !.pc = "done",
               !.resp = [status |-> 200, error |-> "", message |-> NoText,
                         output_text |-> output_text, sources |-> sources]]

\* res.status(200).end()
Preflight(rq) == [rq EXCEPT !.pc = "done", !.resp = [NoResp EXCEPT !.status = 200]]

\* sb.from('messages').insert({ chat_id, role, content })
Saved(rq, role, user, text) ==
    [Called(rq, "messages.insert")
       EXCEPT !.saved = Append(@, [role |-> role, user |-> user, text |-> text])]

\* the answer is kept until the assistant turn is written
Answer(rq, text, sources) ==
    [rq EXCEPT !.pc = "save_assistant", !.output = text, !.sources = sources]

\* a request arrives on a free slot
Arrive(r, ips, methods, messageLists) ==
    /\ req[r].pc = "idle"
    /\ \E ip \in ips, m \in methods, k \in BOOLEAN, c \in BOOLEAN,
          l \in Langs, ms \in messageLists, x \in BOOLEAN :
         /\ rev # "api" => ~x
         /\ rev = "plain" => k
         /\ Update(r, [Idle EXCEPT !.pc = "start", !.ip = ip, !.method = m,
                                   !.keyOk = k, !.chat_id = c, !.language = l,
                                   !.messages = ms, !.allowExternal = x])
    /\ UNCHANGED <<rev, env, day, request_log>>

\* the four sb.rpc calls of Promise.all are issued, in array order, against
\* the datastore contents w
IssueRpcs(rq, w) ==
    [rq EXCEPT !.pc = "rpc", !.world = w,
               !.calls = @ \o <<"rpc.match_services", "rpc.match_news",
                                "rpc.match_can_stadiums", "rpc.match_places_can">>,
               !.rpc = [c \in Cats |-> "pending"]]

\* Promise.all resolves: every call returned { data, error }
AllSettled(rq) == \A c \in Cats : rq.rpc[c] \in {"ok", "error"}

\* the request with call c rejected
Rejected(rq, c) == [rq EXCEPT !.rpc[c] = "rejected"]

\* one sb.rpc call settles: { data, error: null }, { data: null, error },
\* or its promise rejects, which rejects Promise.all at once: the handler
\* goes to its catch (caught, the request after the catch block)
Settle(r, c, caught) ==
    /\ req[r].pc = "rpc"
    /\ req[r].rpc[c] = "pending"
    /\ \/ Update(r, [req[r] EXCEPT !.rpc[c] = "ok", !.data[c] = req[r].world[c]])
       \/ Update(r, [req[r] EXCEPT !.rpc[c] = "error"])
       \/ Update(r, caught)
    /\ UNCHANGED <<rev, env, day, request_log>>

\* { type, id, name } of the records, in the order services, places,
\* stadiums, news; the name is serviceName(h) and its like when byLanguage,
\* h.name_fr ?? h.name_en ?? h.name_ar otherwise
Sources(rq, byLanguage) ==
    LET name(h) ==
            IF byLanguage
            THEN languagePreference(pickServiceName(rq.language), h)
            ELSE Coalesce(nameFrEnAr(h), Null)
        src(type, c) ==
            [i \in 1..Len(DataOf(rq, c)) |->
               [type |-> type, id |-> DataOf(rq, c)[i].id,
                name |-> name(DataOf(rq, c)[i])]]
    IN  src("service", "services") \o src("place", "places")
        \o src("stadium", "stadiums") \o src("news", "news")

\* the model-facing conversation: style, context, then the turns
History(turns) ==
    << [role |-> "user", kind |-> "style", text |-> <<>>],
       [role |-> "user", kind |-> "context", text |-> <<>>] >>
    \o [i \in 1..Len(turns) |->
          [role |-> turns[i].role, kind |-> "turn", text |-> turns[i].content]]

(***************************************************************************)
(* Revision "api": handler of src/api/rag-chat.mjs 209-344                 *)
(***************************************************************************)
\* 339-343: the catch of the handler; status429 is e?.status === 429
apiCatch(rq, status429) ==
    IF status429
    THEN Fail(rq, 429, "rate_limited", Text("pleaseWait", "en"))
    ELSE Fail(rq, 500, "chat_failed", NoText)

\* 210-228: method, app key, body, last user message
apiHandler_start(r) ==
    /\ rev = "api"
    /\ req[r].pc = "start"
    /\ LET rq == req[r]
           lastUser == LastUser(rq.messages)
       IN  Update(r,
             IF rq.method = "OPTIONS" THEN Preflight(rq)
             ELSE IF rq.method # "POST"
               THEN Fail(rq, 405, "method_not_allowed", NoText)
             ELSE IF ~rq.keyOk THEN Fail(rq, 401, "unauthorized", NoText)
             ELSE IF ~notEmpty(lastUser)
               THEN Fail(rq, 400, "missing_user_message", NoText)
             ELSE [rq EXCEPT !.pc = "save_user", !.lastUser = lastUser])
    /\ UNCHANGED <<rev, env, day, request_log>>

\* 231: the user turn is written when the body carries a chat_id
apiHandler_saveUser(r) ==
    /\ rev = "api"
    /\ req[r].pc = "save_user"
    /\ LET rq == req[r]
       IN  Update(r, [(IF rq.chat_id
                       THEN Saved(rq, "user", rq.lastUser, NoText) ELSE rq)
                        EXCEPT !.pc = "route"])
    /\ UNCHANGED <<rev, env, day, request_log>>

\* the routing without the test of allowExternal
apiHandler_route_alwaysExternal(r) ==
    /\ rev = "api"
    /\ req[r].pc = "route"
    /\ LET intent == routeIntent(req[r].lastUser)
           rq == [Called(req[r], "routeIntent") EXCEPT !.intent = intent]
           lang == rq.language
       IN  Update(r,
             IF intent = "app_data" THEN [rq EXCEPT !.pc = "embed"]
             ELSE IF intent = "weather" THEN [rq EXCEPT !.pc = "weather_geocode"]
             ELSE IF intent = "directions"
               THEN IF ~env.ORS_KEY
                      THEN Answer(rq, directionsNotConfigured(lang), <<>>)
                    ELSE IF ~parseFromTo(rq.lastUser)
                      THEN Answer(rq, directionsUsage(lang), <<>>)
                    ELSE [rq EXCEPT !.pc = "directions_geocode"]
             ELSE IF ~env.SERPAPI_KEY
               THEN Answer(rq, webNotConfigured(lang), <<>>)
             ELSE [rq EXCEPT !.pc = "web_search"])
    /\ UNCHANGED <<rev, env, day, request_log>>

\* the routing without the usage hint: every directions request is geocoded
apiHandler_route_noUsage(r) ==
    /\ rev = "api"
    /\ req[r].pc = "route"
    /\ LET intent == routeIntent(req[r].lastUser)
           rq == [Called(req[r], "routeIntent") EXCEPT !.intent = intent]
           lang == rq.language
       IN  Update(r,
             IF intent = "app_data" THEN [rq EXCEPT !.pc = "embed"]
             ELSE IF ~rq.allowExternal
               THEN Answer(rq, domainRefusal(lang), <<>>)
             ELSE IF intent = "weather" THEN [rq EXCEPT !.pc = "weather_geocode"]
             ELSE IF intent = "directions"
               THEN IF ~env.ORS_KEY
                      THEN Answer(rq, directionsNotConfigured(lang), <<>>)
                    ELSE [rq EXCEPT !.pc = "directions_geocode"]
             ELSE IF ~env.SERPAPI_KEY
               THEN Answer(rq, webNotConfigured(lang), <<>>)
             ELSE [rq EXCEPT !.pc = "web_search"])
    /\ UNCHANGED <<rev, env, day, request_log>>

\* 234-266 up to the first await of the branch taken, with the synchronous
\* heads of fetchDirectionsSmart (158-178) and fetchWebSerp (186-195)
apiHandler_route(r) ==
    /\ rev = "api"
    /\ req[r].pc = "route"
    /\ LET intent == routeIntent(req[r].lastUser)
           rq == [Called(req[r], "routeIntent") EXCEPT !.intent = intent]
           lang == rq.language
       IN  Update(r,
             IF intent = "app_data" THEN [rq EXCEPT !.pc = "embed"]
             ELSE IF ~rq.allowExternal
               THEN Answer(rq, domainRefusal(lang), <<>>)
             ELSE IF intent = "weather" THEN [rq EXCEPT !.pc = "weather_geocode"]
             ELSE IF intent = "directions"
               THEN IF ~env.ORS_KEY
                      THEN Answer(rq, directionsNotConfigured(lang), <<>>)
                    ELSE IF ~parseFromTo(rq.lastUser)
                      THEN Answer(rq, directionsUsage(lang), <<>>)
                    ELSE [rq EXCEPT !.pc = "directions_geocode"]
             ELSE IF ~env.SERPAPI_KEY
               THEN Answer(rq, webNotConfigured(lang), <<>>)
             ELSE [rq EXCEPT !.pc = "web_search"])
    /\ UNCHANGED <<rev, env, day, request_log>>

\* the geocoding step with a missing location handed to the web adapter
apiHandler_weatherGeocode_toWeb(r) ==
    /\ rev = "api"
    /\ req[r].pc = "weather_geocode"
    /\ LET rq == Called(req[r], "fetch.open-meteo.geocoding")
       IN  \/ Update(r, [rq EXCEPT !.pc = "weather_forecast"])
           \/ Update(r, [rq EXCEPT !.pc = "web_search"])
           \/ Update(r, apiCatch(rq, FALSE))
    /\ UNCHANGED <<rev, env, day, request_log>>

\* 100-104 and 248-254: the geocoding call of fetchWeather
apiHandler_weatherGeocode(r) ==
    /\ rev = "api"
    /\ req[r].pc = "weather_geocode"
    /\ LET rq == Called(req[r], "fetch.open-meteo.geocoding")
       IN  \/ Update(r, [rq EXCEPT !.pc = "weather_forecast"])
           \* no location: { text: null }, the handler falls through
           \/ Update(r, [rq EXCEPT !.pc = "embed"])
           \/ Update(r, apiCatch(rq, FALSE))
    /\ UNCHANGED <<rev, env, day, request_log>>

\* 106-115 and 249-252: the forecast call of fetchWeather
apiHandler_weatherForecast(r) ==
    /\ rev = "api"
    /\ req[r].pc = "weather_forecast"
    /\ LET rq == Called(req[r], "fetch.open-meteo.forecast")
       IN  \/ Update(r, Answer(rq, Text("weatherReport", "en"),
                               << [type |-> "web", id |-> 0,
                                   name |-> Lit("Open-Meteo", 10)] >>))
           \/ Update(r, apiCatch(rq, FALSE))
    /\ UNCHANGED <<rev, env, day, request_log>>

\* 130-138 and 179-180: the two geocodeORS calls of fetchDirectionsSmart
apiHandler_directionsGeocode(r) ==
    /\ rev = "api"
    /\ req[r].pc = "directions_geocode"
    /\ LET rq == Called(Called(req[r], "fetch.ors.geocode"), "fetch.ors.geocode")
       IN  \/ Update(r, [rq EXCEPT !.pc = "directions_route"])
           \/ Update(r, Answer(rq, Text("couldntGeocode", "en"), <<>>))
           \/ Update(r, apiCatch(rq, FALSE))
    /\ UNCHANGED <<rev, env, day, request_log>>

\* 140-155 and 181: directionsORS
apiHandler_directionsRoute(r) ==
    /\ rev = "api"
    /\ req[r].pc = "directions_route"
    /\ LET rq == Called(req[r], "fetch.ors.directions")
       IN  \/ Update(r, Answer(rq, Text("route", "en"),
                               << [type |-> "web", id |-> 0,
                                   name |-> Lit("OpenRouteService", 16)] >>))
           \/ Update(r, Answer(rq, Text("noRouteFound", "en"), <<>>))
           \/ Update(r, apiCatch(rq, FALSE))
    /\ UNCHANGED <<rev, env, day, request_log>>

\* 196-205: the search call of fetchWebSerp
apiHandler_webSearch(r) ==
    /\ rev = "api"
    /\ req[r].pc = "web_search"
    /\ LET rq == Called(req[r], "fetch.serpapi")
           src == << [type |-> "web", id |-> 0,
                      name |-> Lit("Google (SerpAPI)", 16)] >>
       IN  \/ Update(r, Answer(rq, Text("topResults", "en"), src))
           \/ Update(r, Answer(rq, Text("noRelevantResults", "en"), src))
           \/ Update(r, apiCatch(rq, FALSE))
    /\ UNCHANGED <<rev, env, day, request_log>>

\* 271-280: embedModel.embedContent, then the four sb.rpc calls are issued
apiHandler_embed(r) ==
    /\ rev = "api"
    /\ req[r].pc = "embed"
    /\ LET rq == Called(req[r], "embedContent")
       IN  \/ \E w \in Worlds : Update(r, IssueRpcs(rq, w))
           \/ \E status429 \in BOOLEAN : Update(r, apiCatch(rq, status429))
    /\ UNCHANGED <<rev, env, day, request_log>>

\* 275-280: one of the four calls settles
apiHandler_rpcSettle(r, c) ==
    rev = "api" /\ Settle(r, c, apiCatch(Rejected(req[r], c), FALSE))

\* ...(x.data ?? []).map(x => Number(x.similarity) || 0) over services, news,
\* stadiums, places (287-292)
Sims(rq) ==
    Concat([i \in 1..4 |->
              [j \in 1..Len(DataOf(rq, CatOrder[i])) |->
                 DataOf(rq, CatOrder[i])[j].similarity]])

RECURSIVE MathMax(_)
\* Math.max(...sims) of a non-empty array
MathMax(sims) ==
    IF Len(sims) = 1 THEN sims[1] ELSE Max(Head(sims), MathMax(Tail(sims)))

\* 293: const bestSim = sims.length ? Math.max(...sims) : 0;
bestSim(sims) == IF Len(sims) > 0 THEN MathMax(sims) ELSE 0

\* 294: const totalMatches = sims.filter(s => s > 0).length;
totalMatches(sims) == Len(SelectSeq(sims, LAMBDA x : x > 0))

\* the gate with <= for <
gateRefuses_offByOne(sims, strict, minSim) ==
    strict /\ (bestSim(sims) <= minSim \/ totalMatches(sims) = 0)

\* 295: STRICT_DOMAIN && (bestSim < MIN_SIM || totalMatches === 0)
gateRefuses(sims, strict, minSim) ==
    strict /\ (bestSim(sims) < minSim \/ totalMatches(sims) = 0)

\* the gate without its return: a refused request goes on to generation
apiHandler_gate_noReturn(r) ==
    /\ rev = "api"
    /\ req[r].pc = "rpc"
    /\ AllSettled(req[r])
    /\ LET rq == Called(req[r], "gate")
       IN  Update(r, [rq EXCEPT !.gate = IF gateRefuses(Sims(rq), env.STRICT_DOMAIN,
                                                       env.MIN_SIM)
                                        THEN "refuse" ELSE "proceed",
                                !.pc = "ask_primary",
                                !.context = apiContext(rq),
                                !.history = History(SliceLast(rq.messages, 2))])
    /\ UNCHANGED <<rev, env, day, request_log>>

\* 281-313: the join of Promise.all, the similarity gate, the context and
\* the conversation
apiHandler_gate(r) ==
    /\ rev = "api"
    /\ req[r].pc = "rpc"
    /\ AllSettled(req[r])
    /\ LET rq == Called(req[r], "gate")
       IN  Update(r,
             IF gateRefuses(Sims(rq), env.STRICT_DOMAIN, env.MIN_SIM)
             THEN [Answer(rq, domainRefusal(rq.language), <<>>)
                     EXCEPT !.gate = "refuse"]
             ELSE [rq EXCEPT !.gate = "proceed", !.pc = "ask_primary",
                             !.context = apiContext(rq),
                             !.history = History(SliceLast(rq.messages, 2))])
    /\ UNCHANGED <<rev, env, day, request_log>>

\* 331-336
apiSources(rq) == Sources(rq, FALSE)

\* 60-64: askModel(model, history): the call is logged with what came back
Asked(rq, model, outcome) ==
    [Called(rq, model)
       EXCEPT !.gen = Append(@, [model |-> model, outcome |-> outcome,
                                 text |-> IF outcome \in {"ok", "no_text"}
                                          THEN ModelText(model, outcome)
                                          ELSE NoText])]

\* 317-326: askModel(PRIMARY, history)
apiHandler_askPrimary(r) ==
    /\ rev = "api"
    /\ req[r].pc = "ask_primary"
    /\ \/ \E o \in {"ok", "no_text"} :
            LET rq == Asked(req[r], "PRIMARY", o)
            IN  Update(r, Answer(rq, ModelText("PRIMARY", o), apiSources(rq)))
       \/ \E retryDelay \in RetryDelays :
            Update(r, [Asked(req[r], "PRIMARY", "429")
                         EXCEPT !.pc = "wait",
                                !.retryDelay = retryDelay,
                                !.waitMs = getRetryDelayMs(retryDelay)])
       \/ Update(r, apiCatch(Asked(req[r], "PRIMARY", "error"), FALSE))
    /\ UNCHANGED <<rev, env, day, request_log>>

\* 322: await new Promise(r => setTimeout(r, waitMs))
apiHandler_wait(r) ==
    /\ rev = "api"
    /\ req[r].pc = "wait"
    /\ Update(r, [Called(req[r], "setTimeout")
                    EXCEPT !.pc = "ask_fallback", !.waited = req[r].waitMs])
    /\ UNCHANGED <<rev, env, day, request_log>>

\* the fallback call without the assignment to output
apiHandler_askFallback_unassigned(r) ==
    /\ rev = "api"
    /\ req[r].pc = "ask_fallback"
    /\ \/ \E o \in {"ok", "no_text"} :
            LET rq == Asked(req[r], "FALLBACK", o)
            IN  Update(r, Answer(rq, NoText, apiSources(rq)))
       \/ Update(r, apiCatch(Asked(req[r], "FALLBACK", "429"), TRUE))
       \/ Update(r, apiCatch(Asked(req[r], "FALLBACK", "error"), FALSE))
    /\ UNCHANGED <<rev, env, day, request_log>>

\* 323: output = await askModel(FALLBACK, history)
apiHandler_askFallback(r) ==
    /\ rev = "api"
    /\ req[r].pc = "ask_fallback"
    /\ \/ \E o \in {"ok", "no_text"} :
            LET rq == Asked(req[r], "FALLBACK", o)
            IN  Update(r, Answer(rq, ModelText("FALLBACK", o), apiSources(rq)))
       \/ Update(r, apiCatch(Asked(req[r], "FALLBACK", "429"), TRUE))
       \/ Update(r, apiCatch(Asked(req[r], "FALLBACK", "error"), FALSE))
    /\ UNCHANGED <<rev, env, day, request_log>>

\* the answer sent without the assistant turn being written
apiHandler_saveAssistant_unsaved(r) ==
    /\ rev = "api"
    /\ req[r].pc = "save_assistant"
    /\ LET rq == req[r]
       IN  Update(r, Succeed(rq, rq.output, rq.sources))
    /\ UNCHANGED <<rev, env, day, request_log>>

\* 240-241, 250-251, 258-259, 264-265, 297-298, 329-338: the assistant turn
\* is written when the body carries a chat_id, then the answer is sent
apiHandler_saveAssistant(r) ==
    /\ rev = "api"
    /\ req[r].pc = "save_assistant"
    /\ LET rq == req[r]
       IN  Update(r, Succeed(IF rq.chat_id
                             THEN Saved(rq, "assistant", <<>>, rq.output)
                             ELSE rq,
                             rq.output, rq.sources))
    /\ UNCHANGED <<rev, env, day, request_log>>

(***************************************************************************)
(* Revision "keyed": handler of src/rag-chat.mjs 230-333                   *)
(***************************************************************************)
\* 329-332: the catch of the handler; code429 is e.code === 429
keyedCatch(rq, code429, message) ==
    IF code429 THEN Fail(rq, 429, "rate_limited", message)
    ELSE Fail(rq, 500, "chat_failed", message)

\* the message of an error thrown by a library
ErrorMessage == Text("e.message", "raw")

\* 231-241 and 144-145: method, app key, then enforceRateLimit reads the
\* caller's ip and today's date
keyedHandler_start(r) ==
    /\ rev = "keyed"
    /\ req[r].pc = "start"
    /\ LET rq == req[r]
       IN  Update(r,
             IF rq.method = "OPTIONS" THEN Preflight(rq)
             ELSE IF rq.method # "POST"
               THEN Fail(rq, 405, "method_not_allowed", NoText)
             ELSE IF ~rq.keyOk THEN Fail(rq, 401, "unauthorized", NoText)
             ELSE [rq EXCEPT !.pc = "rate_insert", !.day = day])
    /\ UNCHANGED <<rev, env, day, request_log>>

\* 146: await sb.from('request_log').insert({ day, ip }).select()
enforceRateLimit_insert(r) ==
    /\ rev = "keyed"
    /\ req[r].pc = "rate_insert"
    /\ LET rq == req[r]
           key == <<rq.day, rq.ip>>
       IN  /\ request_log' = [request_log EXCEPT ![key] = @ + 1]
           /\ Update(r, [Called(rq, "request_log.insert")
                           EXCEPT !.pc = "rate_count",
                                  !.rank = request_log[key] + 1])
    /\ UNCHANGED <<rev, env, day>>

\* the comparison with the ceiling with >= for >
enforceRateLimit_count_offByOne(r) ==
    /\ rev = "keyed"
    /\ req[r].pc = "rate_count"
    /\ LET count == request_log[<<req[r].day, req[r].ip>>]
           rq == [Called(req[r], "request_log.count") EXCEPT !.count = count]
           lastUser == SliceTo(Trim(LastUser(rq.messages)), MAX_MSG_LEN)
       IN  Update(r,
             IF count >= MAX_REQ_PER_IP_DAY
               THEN keyedCatch(rq, TRUE, tooManyRequests(rq.language))
             ELSE IF lastUser = <<>>
               THEN Fail(rq, 400, "missing_user_message", NoText)
             ELSE [rq EXCEPT !.pc = "save_user", !.lastUser = lastUser])
    /\ UNCHANGED <<rev, env, day, request_log>>

\* the comparison with a ceiling one higher
enforceRateLimit_count_lenient(r) ==
    /\ rev = "keyed"
    /\ req[r].pc = "rate_count"
    /\ LET count == request_log[<<req[r].day, req[r].ip>>]
           rq == [Called(req[r], "request_log.count") EXCEPT !.count = count]
           lastUser == SliceTo(Trim(LastUser(rq.messages)), MAX_MSG_LEN)
       IN  Update(r,
             IF count > MAX_REQ_PER_IP_DAY + 1
               THEN keyedCatch(rq, TRUE, tooManyRequests(rq.language))
             ELSE IF lastUser = <<>>
               THEN Fail(rq, 400, "missing_user_message", NoText)
             ELSE [rq EXCEPT !.pc = "save_user", !.lastUser = lastUser])
    /\ UNCHANGED <<rev, env, day, request_log>>

\* 147-159 and 243-245: the count of the rows of (day, ip) is read and
\* compared with the ceiling; then the last user message is trimmed and
\* clamped
enforceRateLimit_count(r) ==
    /\ rev = "keyed"
    /\ req[r].pc = "rate_count"
    /\ LET count == request_log[<<req[r].day, req[r].ip>>]
           rq == [Called(req[r], "request_log.count") EXCEPT !.count = count]
           lastUser == SliceTo(Trim(LastUser(rq.messages)), MAX_MSG_LEN)
       IN  Update(r,
             IF count > MAX_REQ_PER_IP_DAY
               THEN keyedCatch(rq, TRUE, tooManyRequests(rq.language))
             ELSE IF lastUser = <<>>
               THEN Fail(rq, 400, "missing_user_message", NoText)
             ELSE [rq EXCEPT !.pc = "save_user", !.lastUser = lastUser])
    /\ UNCHANGED <<rev, env, day, request_log>>

\* 247
keyedHandler_saveUser(r) ==
    /\ rev = "keyed"
    /\ req[r].pc = "save_user"
    /\ LET rq == req[r]
       IN  Update(r, [(IF rq.chat_id
                       THEN Saved(rq, "user", rq.lastUser, NoText) ELSE rq)
                        EXCEPT !.pc = "embed"])
    /\ UNCHANGED <<rev, env, day, request_log>>

\* 250-269: embedModel.embedContent inside its own try, then the four
\* sb.rpc calls are issued
keyedHandler_embed(r) ==
    /\ rev = "keyed"
    /\ req[r].pc = "embed"
    /\ LET rq == Called(req[r], "embedContent")
       IN  \/ \E w \in Worlds : Update(r, IssueRpcs(rq, w))
           \/ Update(r, Fail(rq, 500, "embed_failed", ErrorMessage))
    /\ UNCHANGED <<rev, env, day, request_log>>

\* 260-269: one of the four calls settles
keyedHandler_rpcSettle(r, c) ==
    rev = "keyed"
    /\ Settle(r, c, keyedCatch(Rejected(req[r], c), FALSE, ErrorMessage))

\* 321-326
keyedSources(rq) == Sources(rq, TRUE)

\* m => String(m.content || '').slice(0, MAX_MSG_LEN) over messages.slice(-2)
ClampTurns(turns) ==
    [i \in 1..Len(turns) |->
       Turn(turns[i].role, SliceTo(turns[i].content, MAX_MSG_LEN))]

\* 271-292: the join of Promise.all, the clamped context, the conversation
keyedHandler_context(r) ==
    /\ rev = "keyed"
    /\ req[r].pc = "rpc"
    /\ AllSettled(req[r])
    /\ LET rq == req[r]
       IN  Update(r, [rq EXCEPT !.pc = "ask_primary",
                                !.context = keyedContext(rq),
                                !.history =
                                   History(ClampTurns(SliceLast(rq.messages, 2)))])
    /\ UNCHANGED <<rev, env, day, request_log>>

\* 296-302 and 314-316: the first call on PRIMARY
keyedHandler_askPrimary(r) ==
    /\ rev = "keyed"
    /\ req[r].pc = "ask_primary"
    /\ \/ \E o \in {"ok", "no_text"} :
            LET rq == Asked(req[r], "PRIMARY", o)
            IN  Update(r, Answer(rq, ModelText("PRIMARY", o), keyedSources(rq)))
       \/ \E retryDelay \in RetryDelays :
            Update(r, [Asked(req[r], "PRIMARY", "429")
                         EXCEPT !.pc = "wait",
                                !.retryDelay = retryDelay,
                                !.waitMs = 2000])
       \/ Update(r, keyedCatch(Asked(req[r], "PRIMARY", "error"), FALSE,
                               ErrorMessage))
    /\ UNCHANGED <<rev, env, day, request_log>>

\* 302: await new Promise(r => setTimeout(r, 2000))
keyedHandler_wait(r) ==
    /\ rev = "keyed"
    /\ req[r].pc = "wait"
    /\ Update(r, [Called(req[r], "setTimeout")
                    EXCEPT !.pc = "retry", !.waited = req[r].waitMs])
    /\ UNCHANGED <<rev, env, day, request_log>>

\* the retry without its own try/catch: a failure reaches the handler's catch
keyedHandler_retry_rethrow(r) ==
    /\ rev = "keyed"
    /\ req[r].pc = "retry"
    /\ \/ \E o \in {"ok", "no_text"} :
            LET rq == Asked(req[r], "PRIMARY", o)
            IN  Update(r, Answer(rq, ModelText("PRIMARY", o), keyedSources(rq)))
       \/ \E o \in {"429", "error"} :
            Update(r, keyedCatch(Asked(req[r], "PRIMARY", o), FALSE, ErrorMessage))
    /\ UNCHANGED <<rev, env, day, request_log>>

\* 303-313: the retry on PRIMARY; whatever it throws is swallowed
keyedHandler_retry(r) ==
    /\ rev = "keyed"
    /\ req[r].pc = "retry"
    /\ \/ \E o \in {"ok", "no_text"} :
            LET rq == Asked(req[r], "PRIMARY", o)
            IN  Update(r, Answer(rq, ModelText("PRIMARY", o), keyedSources(rq)))
       \/ \E o \in {"429", "error"} :
            LET rq == Asked(req[r], "PRIMARY", o)
            IN  Update(r, Answer(rq, rateLimitReached(rq.language),
                                 keyedSources(rq)))
    /\ UNCHANGED <<rev, env, day, request_log>>

\* 319-328
keyedHandler_saveAssistant(r) ==
    /\ rev = "keyed"
    /\ req[r].pc = "save_assistant"
    /\ LET rq == req[r]
       IN  Update(r, Succeed(IF rq.chat_id
                             THEN Saved(rq, "assistant", <<>>, rq.output)
                             ELSE rq,
                             rq.output, rq.sources))
    /\ UNCHANGED <<rev, env, day, request_log>>

(***************************************************************************)
(* Revision "plain": handler of src/rag-chat.mjs 27-87                     *)
(***************************************************************************)
\* 83-86
plainCatch(rq) == Fail(rq, 500, "chat_failed", NoText)

\* 28-34
plainHandler_start(r) ==
    /\ rev = "plain"
    /\ req[r].pc = "start"
    /\ LET rq == req[r]
       IN  Update(r,
             IF rq.method = "OPTIONS" THEN Preflight(rq)
             ELSE IF rq.method # "POST"
               THEN Fail(rq, 405, "Method not allowed", NoText)
             ELSE [rq EXCEPT !.pc = "save_user",
                             !.lastUser = LastUser(rq.messages)])
    /\ UNCHANGED <<rev, env, day, request_log>>

\* 35 and 22-25: if (chat_id && lastUser) await saveMessage(...)
plainHandler_saveUser(r) ==
    /\ rev = "plain"
    /\ req[r].pc = "save_user"
    /\ LET rq == req[r]
       IN  Update(r, [(IF rq.chat_id /\ rq.lastUser # <<>>
                       THEN Saved(rq, "user", rq.lastUser, NoText) ELSE rq)
                        EXCEPT !.pc = "embed"])
    /\ UNCHANGED <<rev, env, day, request_log>>

\* 38-47
plainHandler_embed(r) ==
    /\ rev = "plain"
    /\ req[r].pc = "embed"
    /\ LET rq == Called(req[r], "embedContent")
       IN  \/ \E w \in Worlds : Update(r, IssueRpcs(rq, w))
           \/ Update(r, plainCatch(rq))
    /\ UNCHANGED <<rev, env, day, request_log>>

\* 42-47
plainHandler_rpcSettle(r, c) ==
    rev = "plain" /\ Settle(r, c, plainCatch(Rejected(req[r], c)))

\* 75-80
plainSources(rq) == Sources(rq, FALSE)

\* 49-67: the join of Promise.all, the context, the conversation with every
\* turn of the body
plainHandler_context(r) ==
    /\ rev = "plain"
    /\ req[r].pc = "rpc"
    /\ AllSettled(req[r])
    /\ LET rq == req[r]
       IN  Update(r, [rq EXCEPT !.pc = "ask",
                                !.context = plainContext(rq),
                                !.history = History(rq.messages)])
    /\ UNCHANGED <<rev, env, day, request_log>>

\* 69-71: the one call on chatModel
plainHandler_ask(r) ==
    /\ rev = "plain"
    /\ req[r].pc = "ask"
    /\ \/ \E o \in {"ok", "no_text"} :
            LET rq == Asked(req[r], "chatModel", o)
            IN  Update(r, Answer(rq, ModelText("chatModel", o), plainSources(rq)))
       \/ \E o \in {"429", "error"} :
            Update(r, plainCatch(Asked(req[r], "chatModel", o)))
    /\ UNCHANGED <<rev, env, day, request_log>>

\* 73-82
plainHandler_saveAssistant(r) ==
    /\ rev = "plain"
    /\ req[r].pc = "save_assistant"
    /\ LET rq == req[r]
       IN  Update(r, Succeed(IF rq.chat_id
                             THEN Saved(rq, "assistant", <<>>, rq.output)
                             ELSE rq,
                             rq.output, rq.sources))
    /\ UNCHANGED <<rev, env, day, request_log>>

(***************************************************************************)
(* Environment                                                             *)
(***************************************************************************)
\* midnight UTC passes
NextDay ==
    /\ day < MaxDay
    /\ day' = day + 1
    /\ UNCHANGED <<rev, env, request_log, req>>

\* the response was sent: everything derived from the request is dropped
Discard(r) ==
    /\ req[r].pc = "done"
    /\ Update(r, Idle)
    /\ UNCHANGED <<rev, env, day, request_log>>

\* rows of (today, ip) written or about to be written
Counted(ip) ==
    request_log[<<day, ip>>]
    + Cardinality({r \in DOMAIN req :
                     req[r].ip = ip /\ req[r].pc \in {"start", "rate_insert"}})

\* a POST or other request reaches the deployment
Receive(r) ==
    /\ rev = "keyed" => Counted("10.0.0.1") < MAX_REQ_PER_IP_DAY + MaxOver
    /\ Arrive(r, {"10.0.0.1"}, Methods,
              IF rev = "api" THEN ApiMessageLists ELSE MessageLists)

(***************************************************************************)
(* Specification of the deployment serving one request after another       *)
(***************************************************************************)
Init ==
    /\ rev \in {"api", "keyed", "plain"}
    /\ env \in (IF rev = "api" THEN ApiEnvs ELSE {OtherEnv})
    /\ day = 1
    /\ request_log = [k \in Days \X IPs |-> 0]
    /\ req = [r \in 1..1 |-> Idle]

Next ==
    \/ \E r \in DOMAIN req : Receive(r)
    \/ \E r \in DOMAIN req : Discard(r)
    \/ \E r \in DOMAIN req : apiHandler_start(r)
    \/ \E r \in DOMAIN req : apiHandler_saveUser(r)
    \/ \E r \in DOMAIN req : apiHandler_route(r)
    \/ \E r \in DOMAIN req : apiHandler_weatherGeocode(r)
    \/ \E r \in DOMAIN req : apiHandler_weatherForecast(r)
    \/ \E r \in DOMAIN req : apiHandler_directionsGeocode(r)
    \/ \E r \in DOMAIN req : apiHandler_directionsRoute(r)
    \/ \E r \in DOMAIN req : apiHandler_webSearch(r)
    \/ \E r \in DOMAIN req : apiHandler_embed(r)
    \/ \E r \in DOMAIN req, c \in Cats : apiHandler_rpcSettle(r, c)
    \/ \E r \in DOMAIN req : apiHandler_gate(r)
    \/ \E r \in DOMAIN req : apiHandler_askPrimary(r)
    \/ \E r \in DOMAIN req : apiHandler_wait(r)
    \/ \E r \in DOMAIN req : apiHandler_askFallback(r)
    \/ \E r \in DOMAIN req : apiHandler_saveAssistant(r)
    \/ \E r \in DOMAIN req : keyedHandler_start(r)
    \/ \E r \in DOMAIN req : enforceRateLimit_insert(r)
    \/ \E r \in DOMAIN req : enforceRateLimit_count(r)
    \/ \E r \in DOMAIN req : keyedHandler_saveUser(r)
    \/ \E r \in DOMAIN req : keyedHandler_embed(r)
    \/ \E r \in DOMAIN req, c \in Cats : keyedHandler_rpcSettle(r, c)
    \/ \E r \in DOMAIN req : keyedHandler_context(r)
    \/ \E r \in DOMAIN req : keyedHandler_askPrimary(r)
    \/ \E r \in DOMAIN req : keyedHandler_wait(r)
    \/ \E r \in DOMAIN req : keyedHandler_retry(r)
    \/ \E r \in DOMAIN req : keyedHandler_saveAssistant(r)
    \/ \E r \in DOMAIN req : plainHandler_start(r)
    \/ \E r \in DOMAIN req : plainHandler_saveUser(r)
    \/ \E r \in DOMAIN req : plainHandler_embed(r)
    \/ \E r \in DOMAIN req, c \in Cats : plainHandler_rpcSettle(r, c)
    \/ \E r \in DOMAIN req : plainHandler_context(r)
    \/ \E r \in DOMAIN req : plainHandler_ask(r)
    \/ \E r \in DOMAIN req : plainHandler_saveAssistant(r)

Spec == Init /\ [][Next]_vars

(***************************************************************************)
(* Specification of the rate limiter under concurrent requests: revision   *)
(* "keyed", MaxConc requests of one caller in flight, days passing; the    *)
(* request log may hold today's rows of another caller                     *)
(***************************************************************************)
\* POST requests with the app key; the bodies carry no user message, so a
\* request the limiter lets through ends at line 245
ReceiveRL(r) ==
    /\ Counted("10.0.0.1") < MAX_REQ_PER_IP_DAY + MaxOver
    /\ Arrive(r, {"10.0.0.1"}, {"POST"}, {<<>>})
    /\ req'[r].keyOk /\ ~req'[r].chat_id /\ req'[r].language = "en"

InitRL ==
    /\ rev = "keyed"
    /\ env = OtherEnv
    /\ day = 1
    /\ \E n \in {0, MAX_REQ_PER_IP_DAY + 1} :
          request_log = [k \in Days \X IPs |->
                           IF k = <<1, "10.0.0.2">> THEN n ELSE 0]
    /\ req = [r \in 1..MaxConc |-> Idle]

NextRL ==
    \/ NextDay
    \/ \E r \in DOMAIN req : ReceiveRL(r)
    \/ \E r \in DOMAIN req : Discard(r)
    \/ \E r \in DOMAIN req : keyedHandler_start(r)
    \/ \E r \in DOMAIN req : enforceRateLimit_insert(r)
    \/ \E r \in DOMAIN req : enforceRateLimit_count(r)

SpecRL == InitRL /\ [][NextRL]_vars

(***************************************************************************)
(* Vocabulary of the claims                                                *)
(***************************************************************************)
Done(rq) == rq.pc = "done"

\* a POST request that passed the app-key check of its revision
Accepted(rq) == rq.pc \notin {"idle", "start"} /\ rq.method = "POST" /\ rq.keyOk

\* the rate limiter found the request over the daily ceiling
RateLimited(rq) == rq.count > MAX_REQ_PER_IP_DAY

EmbeddingCalls == {"embedContent"}

RetrievalCalls ==
    {"rpc.match_services", "rpc.match_news", "rpc.match_can_stadiums",
     "rpc.match_places_can"}

GenerationCalls == {"PRIMARY", "FALLBACK", "chatModel"}

AdapterCalls ==
    {"fetch.open-meteo.geocoding", "fetch.open-meteo.forecast",
     "fetch.ors.geocode", "fetch.ors.directions", "fetch.serpapi"}

\* the positions in the request's calls of the calls in ops
Positions(rq, ops) == {i \in 1..Len(rq.calls) : rq.calls[i] \in ops}

Issued(rq, ops) == Positions(rq, ops) # {}

\* the last user-role turn is missing, empty or only white space
BlankLastUser(messages) ==
    \A i \in 1..Len(messages) :
        (/\ messages[i].role = "user"
         /\ \A j \in (i + 1)..Len(messages) : messages[j].role # "user")
        => \A k \in 1..Len(messages[i].content) :
               messages[i].content[k] \in WhiteSpace

(***************************************************************************)
(* C1: every POST request (past the credential check and the rate limiter  *)
(* where the revision has them) whose last user-role message is missing,   *)
(* empty or only white space is answered 400 missing_user_message, and no  *)
(* embedding, retrieval or generation call is issued for it.  Revision     *)
(* "plain" embeds the empty text and goes on.                              *)
(***************************************************************************)
C1_BlankUserMessageRejected ==
    \A r \in DOMAIN req :
        LET rq == req[r]
        IN  (Accepted(rq) /\ ~RateLimited(rq) /\ BlankLastUser(rq.messages))
            => /\ ~Issued(rq, EmbeddingCalls \cup RetrievalCalls \cup GenerationCalls)
               /\ Done(rq) => /\ rq.resp.status = 400
                              /\ rq.resp.error = "missing_user_message"

(***************************************************************************)
(* C2: the gate decides only after the four retrieval calls have returned  *)
(* and before any generation call; when it refuses, no generation call is  *)
(* issued and the response is 200 with the refusal text in the request's   *)
(* language and no sources.                                                *)
(***************************************************************************)
C2_GateOrdering ==
    \A r \in DOMAIN req :
        LET rq == req[r]
            gateAt == Positions(rq, {"gate"})
        IN  /\ rq.gate # "none"
               => /\ \A c \in Cats : rq.rpc[c] \in {"ok", "error"}
                  /\ Cardinality(gateAt) = 1
                  /\ Cardinality(Positions(rq, RetrievalCalls)) = 4
                  /\ \A i \in Positions(rq, RetrievalCalls), g \in gateAt : i < g
                  /\ \A i \in Positions(rq, GenerationCalls), g \in gateAt : g < i
            /\ (rev = "api" /\ Issued(rq, GenerationCalls)) => rq.gate = "proceed"
            /\ rq.gate = "refuse"
               => /\ ~Issued(rq, GenerationCalls)
                  /\ Done(rq) => /\ rq.resp.status = 200
                                 /\ rq.resp.output_text
                                      = Text("domainRefusal", rq.language)
                                 /\ rq.resp.sources = <<>>

C2_Witness ==
    \E r \in DOMAIN req :
        /\ Done(req[r])
        /\ req[r].gate = "refuse"
        /\ req[r].resp.status = 200
        /\ req[r].language = "ar"

\* the retrieved similarities, each with its category and rank
Retrieved(rq) ==
    {ci \in Cats \X (1..MaxRecs) :
        rq.rpc[ci[1]] = "ok" /\ ci[2] <= Len(rq.data[ci[1]])}

SimOf(rq, ci) == rq.data[ci[1]][ci[2]].similarity

Best(rq) ==
    IF Retrieved(rq) = {} THEN 0
    ELSE CHOOSE b \in {SimOf(rq, ci) : ci \in Retrieved(rq)} :
             \A ci \in Retrieved(rq) : SimOf(rq, ci) <= b

MatchCount(rq) == Cardinality({ci \in Retrieved(rq) : SimOf(rq, ci) > 0})

SimList(rq) ==
    [i \in 1..Len(DataOf(rq, "services")) |-> rq.data["services"][i].similarity]

OnlyServices(rq) == \A c \in Cats \ {"services"} : DataOf(rq, c) = <<>>

(***************************************************************************)
(* C3: with best the greatest retrieved similarity (0 when there is none)  *)
(* and matchCount the number of similarities above 0, the gate refuses     *)
(* exactly when strict mode is on and (best < minSimilarity or matchCount  *)
(* = 0); with strict mode on and minSimilarity 0.22, [0.1, 0.05] is        *)
(* refused, [0.3, 0.1] proceeds and the empty list is refused.             *)
(***************************************************************************)
C3_GateDecision ==
    \A r \in DOMAIN req :
        LET rq == req[r]
        IN  rq.gate # "none"
            => /\ rq.gate = "refuse"
                  <=> (env.STRICT_DOMAIN
                       /\ (Best(rq) < env.MIN_SIM \/ MatchCount(rq) = 0))
               /\ (env.STRICT_DOMAIN /\ env.MIN_SIM = MIN_SIM_DEFAULT /\ OnlyServices(rq))
                  => /\ SimList(rq) = <<10, 5>> => rq.gate = "refuse"
                     /\ SimList(rq) = <<30, 10>> => rq.gate = "proceed"
                     /\ SimList(rq) = <<>> => rq.gate = "refuse"

C3_Witness ==
    \E r \in DOMAIN req :
        /\ req[r].gate = "proceed"
        /\ env.STRICT_DOMAIN /\ env.MIN_SIM = MIN_SIM_DEFAULT
        /\ OnlyServices(req[r])
        /\ SimList(req[r]) = <<30, 10>>

GenerationSequence(rq) == SelectSeq(rq.calls, LAMBDA op : op \in GenerationCalls)

(***************************************************************************)
(* C4: when the call on the primary backend fails with 429 and the call on *)
(* the fallback backend that follows returns, the response is 200 with the *)
(* fallback's output as its text, and exactly two generation calls were    *)
(* issued: one on PRIMARY, then one on FALLBACK.                           *)
(***************************************************************************)
C4_FallbackAnswer ==
    \A r \in DOMAIN req :
        LET rq == req[r]
        IN  (/\ Done(rq)
             /\ Len(rq.gen) >= 2
             /\ rq.gen[1].model = "PRIMARY" /\ rq.gen[1].outcome = "429"
             /\ rq.gen[2].model = "FALLBACK"
             /\ rq.gen[2].outcome \in {"ok", "no_text"})
            => /\ rq.resp.status = 200
               /\ rq.resp.output_text = rq.gen[2].text
               /\ rq.gen[2].text # NoText
               /\ GenerationSequence(rq) = <<"PRIMARY", "FALLBACK">>

C4_Witness ==
    \E r \in DOMAIN req :
        /\ Done(req[r])
        /\ Len(req[r].gen) = 2
        /\ req[r].gen[1].outcome = "429"
        /\ req[r].gen[2].model = "FALLBACK" /\ req[r].gen[2].outcome = "ok"
        /\ req[r].resp.output_text = Text("FALLBACK", "answer")

TwiceRateLimited(rq) ==
    /\ Done(rq)
    /\ Len(rq.gen) = 2
    /\ rq.gen[1].outcome = "429"
    /\ rq.gen[2].outcome = "429"

(***************************************************************************)
(* C5, as amended: when the first generation call fails with 429 and the   *)
(* second one fails with 429 too, the revision that retries on PRIMARY     *)
(* (src/rag-chat.mjs 230-333) answers 200 with the "try again later"       *)
(* message in the request's language as the answer text, and the revision  *)
(* with the FALLBACK backend (src/api/rag-chat.mjs) answers with the error *)
(* response 429 rate_limited.                                              *)
(***************************************************************************)
C5_TwiceRateLimited ==
    \A r \in DOMAIN req :
        LET rq == req[r]
        IN  TwiceRateLimited(rq)
            => /\ rev \in {"keyed", "api"}
               /\ rev = "keyed"
                  => /\ rq.resp.status = 200
                     /\ rq.resp.output_text = Text("rateLimitReached", rq.language)
               /\ rev = "api"
                  => /\ rq.resp.status = 429
                     /\ rq.resp.error = "rate_limited"

C5_Witness ==
    \E r \in DOMAIN req :
        /\ TwiceRateLimited(req[r])
        /\ rev = "keyed"
        /\ req[r].language = "fr"
        /\ req[r].resp.status = 200

\* C5 as stated: the request does not fail, the "try again later" message
\* in the request's language is the answer text
C5_AsStated ==
    \A r \in DOMAIN req :
        LET rq == req[r]
        IN  TwiceRateLimited(rq)
            => /\ rq.resp.status = 200
               /\ rq.resp.output_text = Text("rateLimitReached", rq.language)

CounterOf(rq) == request_log[<<rq.day, rq.ip>>]

StageCalls ==
    {"routeIntent", "messages.insert"} \cup EmbeddingCalls \cup RetrievalCalls
    \cup AdapterCalls \cup GenerationCalls

(***************************************************************************)
(* C7: the rate limiter runs before every other stage: a request it        *)
(* rejects performs no intent routing, message-log write, embedding,       *)
(* retrieval, adapter or generation call, and a request that reaches one   *)
(* of those stages has passed the rate-limit check first.  Revisions "api" *)
(* and "plain" have no rate limiter.                                       *)
(***************************************************************************)
C7_RateLimiterFirst ==
    \A r \in DOMAIN req :
        LET rq == req[r]
        IN  /\ Issued(rq, StageCalls)
               => /\ Len(rq.calls) >= 2
                  /\ rq.calls[1] = "request_log.insert"
                  /\ rq.calls[2] = "request_log.count"
                  /\ rq.count <= MAX_REQ_PER_IP_DAY
            /\ RateLimited(rq) => ~Issued(rq, StageCalls)

(***************************************************************************)
(* C8: the count a request compares with the ceiling is the number of      *)
(* requests of its (day, ip) counted up to and including its own.  The     *)
(* insert and the count are two statements: a second request can insert    *)
(* between them.                                                           *)
(***************************************************************************)
C8_CountIsOwnRank ==
    \A r \in DOMAIN req :
        Issued(req[r], {"request_log.count"}) => req[r].count = req[r].rank

FieldCap(field) ==
    CASE field \in {"name", "address"} -> 80
      [] field = "phone" -> 30
      [] field = "capacity" -> 20
      [] field = "title" -> 100

(***************************************************************************)
(* C9: the context handed to the generation backend is never longer than   *)
(* the total-context cap, and no field of a line in it is longer than its  *)
(* per-field cap, however many records are retrieved.  Revision "plain"    *)
(* clamps nothing and revision "api" clamps the fields only.               *)
(***************************************************************************)
C9_ContextWithinCaps ==
    \A r \in DOMAIN req :
        LET rq == req[r]
        IN  Issued(rq, GenerationCalls)
            => /\ rq.context.n <= MAX_CONTEXT_LEN
               /\ \A i \in 1..Len(rq.context.lines) :
                    \A j \in 1..Len(rq.context.lines[i].parts) :
                       LET part == rq.context.lines[i].parts[j]
                       IN  part.v.n <= FieldCap(part.field)

TypeOf(c) ==
    CASE c = "services" -> "service"
      [] c = "news" -> "news"
      [] c = "stadiums" -> "stadium"
      [] c = "places" -> "place"

OneFailed(rq, c) ==
    /\ rq.rpc[c] \in {"error", "rejected"}
    /\ \A d \in Cats \ {c} : rq.rpc[d] = "ok"

(***************************************************************************)
(* C10: when the retrieval call of one category fails (an error result or  *)
(* a rejection) and the other three return, the request goes on: the       *)
(* failed category counts as empty and the records of the other three      *)
(* reach the context and the sources.  A rejection rejects Promise.all and *)
(* the request ends 500.                                                   *)
(***************************************************************************)
C10_RetrievalFailureIsolated ==
    \A r \in DOMAIN req : \A c \in Cats :
        LET rq == req[r]
            others == {<<d, i>> \in (Cats \ {c}) \X (1..MaxRecs) :
                          i <= Len(rq.world[d])}
        IN  OneFailed(rq, c)
            => /\ rq.pc = "rpc" \/ rq.gate = "refuse" \/ rq.history # <<>>
               /\ Issued(rq, GenerationCalls)
                  => /\ \A i \in 1..Len(rq.context.lines) :
                          rq.context.lines[i].type # TypeOf(c)
                     /\ rq.context.n < MAX_CONTEXT_LEN
                        => \A di \in others :
                              \E i \in 1..Len(rq.context.lines) :
                                 /\ rq.context.lines[i].type = TypeOf(di[1])
                                 /\ rq.context.lines[i].id
                                      = rq.world[di[1]][di[2]].id
               /\ (Done(rq) /\ rq.resp.status = 200 /\ rq.gate # "refuse")
                  => \A di \in others :
                        \E i \in 1..Len(rq.resp.sources) :
                           /\ rq.resp.sources[i].type = TypeOf(di[1])
                           /\ rq.resp.sources[i].id = rq.world[di[1]][di[2]].id

\* a call of the request is still in flight
InFlight(rq) == \E c \in Cats : rq.rpc[c] = "pending"

(***************************************************************************)
(* C11: the four retrieval calls of a request are issued together, and no  *)
(* later step of the request (gate, context assembly, generation, sending  *)
(* the response) happens until each of the four has settled with a result  *)
(* or a recorded failure.  A call that raises rejects Promise.all at once: *)
(* the response is sent while the other calls are still in flight.         *)
(***************************************************************************)
C11_FanInJoin ==
    \A r \in DOMAIN req :
        LET rq == req[r]
            at == Positions(rq, RetrievalCalls)
        IN  Issued(rq, RetrievalCalls)
            => /\ Cardinality(at) = 4
               /\ \A i, j \in at : i - j < 4
               /\ (\/ Done(rq)
                   \/ rq.gate # "none"
                   \/ rq.history # <<>>
                   \/ Issued(rq, GenerationCalls))
                  => /\ ~InFlight(rq)
                     /\ \A c \in Cats : rq.rpc[c] \in {"ok", "error"}

\* the embedding call of the request was made and returned no vector
EmbedFailed(rq) ==
    /\ Issued(rq, EmbeddingCalls)
    /\ \A c \in Cats : rq.rpc[c] = "unsent"

(***************************************************************************)
(* C12: whenever the embedding call of a request fails, whatever the       *)
(* failure, the request ends with status 500 and issues no retrieval and   *)
(* no generation call; no retrieval call is issued before the embedding    *)
(* call has returned a vector.  In src/api/rag-chat.mjs an embedding       *)
(* failure that carries status 429 is answered 429 rate_limited.           *)
(***************************************************************************)
C12_EmbeddingFailureFatal ==
    \A r \in DOMAIN req :
        LET rq == req[r]
        IN  /\ EmbedFailed(rq)
               => /\ Done(rq)
                  /\ rq.resp.status = 500
                  /\ ~Issued(rq, RetrievalCalls \cup GenerationCalls)
            /\ \A i \in Positions(rq, RetrievalCalls) :
                  \E e \in Positions(rq, EmbeddingCalls) : e < i

(***************************************************************************)
(* Specification of the embedding uses: MaxUses requests with a user       *)
(* message are taken, side by side, up to their embedding call             *)
(***************************************************************************)
EmbedMessageLists ==
    { << Turn("user", tHelp) >>,
      << Turn("user", tHelp), Turn("assistant", tOk) >>,
      << Turn("user", tOk) >> }

ReceiveEmbed(r) ==
    /\ Arrive(r, {"10.0.0.1"}, {"POST"}, EmbedMessageLists)
    /\ req'[r].keyOk /\ ~req'[r].chat_id /\ req'[r].language = "en"

InitEmbed ==
    /\ rev \in {"api", "keyed", "plain"}
    /\ env = IF rev = "api" THEN CHOOSE e \in ApiEnvs : ~e.STRICT_DOMAIN
             ELSE OtherEnv
    /\ day = 1
    /\ request_log = [k \in Days \X IPs |-> 0]
    /\ req = [r \in 1..MaxUses |-> Idle]

NextEmbed ==
    \/ \E r \in DOMAIN req : ReceiveEmbed(r)
    \/ \E r \in DOMAIN req : apiHandler_start(r)
    \/ \E r \in DOMAIN req : apiHandler_saveUser(r)
    \/ \E r \in DOMAIN req : apiHandler_route(r)
    \/ \E r \in DOMAIN req : apiHandler_embed(r)
    \/ \E r \in DOMAIN req : keyedHandler_start(r)
    \/ \E r \in DOMAIN req : enforceRateLimit_insert(r)
    \/ \E r \in DOMAIN req : enforceRateLimit_count(r)
    \/ \E r \in DOMAIN req : keyedHandler_saveUser(r)
    \/ \E r \in DOMAIN req : keyedHandler_embed(r)
    \/ \E r \in DOMAIN req : plainHandler_start(r)
    \/ \E r \in DOMAIN req : plainHandler_saveUser(r)
    \/ \E r \in DOMAIN req : plainHandler_embed(r)

SpecEmbed == InitEmbed /\ [][NextEmbed]_vars

\* the request's text was embedded: a vector came back for it
Embedded(rq) == \E c \in Cats : rq.rpc[c] # "unsent"

\* the requests whose text t was embedded
UsesOf(t) == {r \in DOMAIN req : Embedded(req[r]) /\ req[r].lastUser = t}

RECURSIVE ThroughCache(_, _, _)
\* the calls to the embedding service when text t is embedded n times with
\* embedOnce, starting from the given cache
ThroughCache(cache, t, n) ==
    IF n = 0 THEN 0
    ELSE LET once == embedOnce(cache, t)
         IN  (IF once.called THEN 1 ELSE 0) + ThroughCache(once.cache, t, n - 1)

(***************************************************************************)
(* C13: when the same text is embedded twice within one cache lifetime,    *)
(* as by two requests with the same last user message, the embedding       *)
(* service is called exactly once for it.  The handlers call               *)
(* embedModel.embedContent themselves and never embedOnce: every use is a  *)
(* call to the service.                                                    *)
(***************************************************************************)
C13_EmbeddingCacheIdempotence ==
    \A r \in DOMAIN req :
        LET t == req[r].lastUser
            serviceCalls ==
                Cardinality({u \in UsesOf(t) : Issued(req[u], EmbeddingCalls)})
        IN  Embedded(req[r])
            => serviceCalls = ThroughCache({}, t, Cardinality(UsesOf(t)))

(***************************************************************************)
(* Specification of the intent router: requests of revision "api" with one *)
(* user message are taken up to the routing of their intent                *)
(***************************************************************************)
\* "what's the weather in Rabat"
tWeatherRabat ==
    <<"w","h","a","t","'","s"," ","t","h","e"," ","w","e","a","t","h","e",
      "r"," ","i","n"," ","R","a","b","a","t">>

\* "bus from Rabat to Casablanca"
tBusRabat ==
    <<"b","u","s"," ","f","r","o","m"," ","R","a","b","a","t"," ","t","o",
      " ","C","a","s","a","b","l","a","n","c","a">>

\* "latest news price reviews"
tLatestNews ==
    <<"l","a","t","e","s","t"," ","n","e","w","s"," ","p","r","i","c","e",
      " ","r","e","v","i","e","w","s">>

\* "health services in Rabat"
tHealthRabat ==
    <<"h","e","a","l","t","h"," ","s","e","r","v","i","c","e","s"," ","i",
      "n"," ","R","a","b","a","t">>

\* "weather bus"
tWeatherBus ==
    <<"w","e","a","t","h","e","r"," ","b","u","s">>

\* "bus now"
tBusNow ==
    <<"b","u","s"," ","n","o","w">>

\* "now bus METEO"
tNowBusMeteo ==
    <<"n","o","w"," ","b","u","s"," ","M","E","T","E","O">>

\* "prix pluie"
tPrixPluie ==
    <<"p","r","i","x"," ","p","l","u","i","e">>

\* "will it rain"
tRain ==
    <<"w","i","l","l"," ","i","t"," ","r","a","i","n">>

\* "snow removal"
tSnow ==
    <<"s","n","o","w"," ","r","e","m","o","v","a","l">>

IntentTexts ==
    { tWeatherRabat, tBusRabat, tLatestNews, tHealthRabat, tWeatherBus,
      tBusNow, tNowBusMeteo, tPrixPluie, tRain, tSnow, tTrain, tHelp }

IntentMessageLists == {<< Turn("user", t) >> : t \in IntentTexts}

ReceiveIntent(r) ==
    /\ Arrive(r, {"10.0.0.1"}, {"POST"}, IntentMessageLists)
    /\ req'[r].keyOk

InitIntent ==
    /\ rev = "api"
    /\ env \in ApiEnvs
    /\ day = 1
    /\ request_log = [k \in Days \X IPs |-> 0]
    /\ req = [r \in 1..1 |-> Idle]

NextIntent ==
    \/ \E r \in DOMAIN req : ReceiveIntent(r)
    \/ \E r \in DOMAIN req : apiHandler_start(r)
    \/ \E r \in DOMAIN req : apiHandler_saveUser(r)
    \/ \E r \in DOMAIN req : apiHandler_route(r)

SpecIntent == InitIntent /\ [][NextIntent]_vars

\* the intent of the request was decided
Routed(rq) == rq.intent # ""

\* keyword k occurs in text q, at any place
Occurs(q, k) ==
    \E i \in 1..Len(q) :
        /\ i + Len(k) - 1 <= Len(q)
        /\ \A j \in 1..Len(k) : q[i + j - 1] = k[j]

Priority == <<"weather", "directions", "web">>

KeywordsOf(intent) ==
    CASE intent = "weather" -> weather
      [] intent = "directions" -> dirs
      [] intent = "web" -> web

\* text q holds a keyword of the intent
Mentions(q, intent) ==
    \E n \in 1..Len(KeywordsOf(intent)) : Occurs(q, KeywordsOf(intent)[n])

\* the first intent of the priority order with a keyword in q
FirstIntent(q) ==
    IF \E i \in 1..Len(Priority) : Mentions(q, Priority[i])
    THEN Priority[CHOOSE i \in 1..Len(Priority) :
                     /\ Mentions(q, Priority[i])
                     /\ \A j \in 1..(i - 1) : ~Mentions(q, Priority[j])]
    ELSE "app_data"

Delimiters == WhiteSpace \cup {",", ".", ";", ":", "?", "!", "'", "-"}

\* keyword k, without the spaces around it, occurs in q as whole tokens: no
\* character of a token comes right before or right after it
OccursAsTokens(q, k) ==
    LET w == Trim(k)
    IN  \E i \in 1..Len(q) :
            /\ i + Len(w) - 1 <= Len(q)
            /\ \A j \in 1..Len(w) : q[i + j - 1] = w[j]
            /\ i > 1 => q[i - 1] \in Delimiters
            /\ i + Len(w) <= Len(q) => q[i + Len(w)] \in Delimiters

(***************************************************************************)
(* C15: a keyword fires only as a whole token or phrase: a text routed to  *)
(* Weather, Directions or Web holds a keyword of that intent as whole      *)
(* tokens, never only inside an unrelated word.  routeIntent tests         *)
(* q.includes(k): "train" is routed to Weather through "rain".             *)
(***************************************************************************)
C15_WholeTokenKeywords ==
    \A r \in DOMAIN req :
        LET rq == req[r]
            q == toLowerCase(rq.lastUser)
        IN  (Routed(rq) /\ rq.intent # "app_data")
            => \E n \in 1..Len(KeywordsOf(rq.intent)) :
                  OccursAsTokens(q, KeywordsOf(rq.intent)[n])

\* the request was routed to an intent other than AppData
External(rq) == Routed(rq) /\ rq.intent # "app_data"

(***************************************************************************)
(* C16: when allowExternal is false and the message is classified as       *)
(* Weather, Directions or Web, the handler answers 200 with the domain     *)
(* refusal text in the request's language and no sources, and makes no     *)
(* adapter, embedding, retrieval or generation call.                       *)
(***************************************************************************)
C16_ExternalNotAllowed ==
    \A r \in DOMAIN req :
        LET rq == req[r]
        IN  (External(rq) /\ ~rq.allowExternal)
            => /\ ~Issued(rq, AdapterCalls \cup EmbeddingCalls
                              \cup RetrievalCalls \cup GenerationCalls)
               /\ rq.pc \in {"save_assistant", "done"}
               /\ Done(rq) => /\ rq.resp.status = 200
                              /\ rq.resp.output_text
                                   = Text("domainRefusal", rq.language)
                              /\ rq.resp.sources = <<>>

C16_Witness ==
    \E r \in DOMAIN req :
        /\ Done(req[r])
        /\ req[r].intent = "web"
        /\ ~req[r].allowExternal
        /\ req[r].language = "fr"
        /\ req[r].resp.status = 200

\* the category of a source or context line of the given type
CatOf(type) ==
    CASE type = "service" -> "services"
      [] type = "news" -> "news"
      [] type = "stadium" -> "stadiums"
      [] type = "place" -> "places"

\* the retrieved record a source or context line was made from
RecordOf(rq, type, id) ==
    LET rows == DataOf(rq, CatOf(type))
    IN  rows[CHOOSE i \in 1..Len(rows) : rows[i].id = id]

\* the preference order of a language: its own field, then the others
PreferenceOrder(lang) ==
    <<lang>> \o SelectSeq(<<"fr", "en", "ar">>, LAMBDA l : l # lang)

\* the first non-empty name field in the preference order, '' when none
Resolved(lang, h) ==
    LET order == PreferenceOrder(lang)
        present == {i \in 1..3 : h[order[i]] # Null /\ h[order[i]].n > 0}
    IN  IF present = {} THEN Str("", 0)
        ELSE h[order[CHOOSE i \in present : \A j \in present : i <= j]]

\* the text of v cut to len characters
CutTo(v, len) == IF v.n <= len THEN v ELSE [v EXCEPT !.n = len]

(***************************************************************************)
(* C17: the display name of every record is the first non-empty name field *)
(* in the preference order that starts with the request's language, and    *)
(* the empty string when all are absent: with name_fr = "A", name_en =     *)
(* "B", name_ar = "C" and language "ar" it is "C", with only name_en = "B" *)
(* and language "fr" it is "B".  Checked on the names of the sources and   *)
(* of the context lines.  src/api/rag-chat.mjs 303-306 and 332-335 take    *)
(* name_fr ?? name_en ?? name_ar whatever the language.                    *)
(***************************************************************************)
C17_NameResolution ==
    \A r \in DOMAIN req :
        LET rq == req[r]
            fromRecords(src) == src.type \in {"service", "news", "stadium", "place"}
        IN  /\ (Done(rq) /\ rq.resp.status = 200)
               => \A i \in 1..Len(rq.resp.sources) :
                     LET src == rq.resp.sources[i]
                     IN  fromRecords(src)
                         => src.name
                              = Resolved(rq.language,
                                         RecordOf(rq, src.type, src.id))
            /\ (Issued(rq, GenerationCalls) /\ rq.context.n < MAX_CONTEXT_LEN)
               => \A i \in 1..Len(rq.context.lines) :
                     LET line == rq.context.lines[i]
                         name == Resolved(rq.language,
                                          RecordOf(rq, line.type, line.id))
                     IN  name.n > 0
                         => line.parts[1].v
                              = CutTo(name, IF line.type = "news" THEN 100 ELSE 80)

\* the weather branch ran and geocoding returned without a location
\* (src/api/rag-chat.mjs 103: { text: null }): the geocoding call was made,
\* the forecast is neither pending nor made, and the call did not throw
NoLocation(rq) ==
    /\ rq.intent = "weather"
    /\ Issued(rq, {"fetch.open-meteo.geocoding"})
    /\ ~Issued(rq, {"fetch.open-meteo.forecast"})
    /\ rq.pc # "weather_forecast"
    /\ ~(rq.calls[Len(rq.calls)] = "fetch.open-meteo.geocoding"
         /\ rq.pc \in {"done", "save_assistant"})

(***************************************************************************)
(* C18: when external lookups are allowed, the intent is Weather and       *)
(* geocoding finds no location, the request is not answered by the weather *)
(* branch, makes no call of the directions or web adapter, and goes on     *)
(* with the embedding as its next call; a 200 answer comes from the domain *)
(* gate or from a generation call.                                         *)
(***************************************************************************)
C18_WeatherFallThrough ==
    \A r \in DOMAIN req :
        LET rq == req[r]
            geo == CHOOSE i \in Positions(rq, {"fetch.open-meteo.geocoding"}) : TRUE
        IN  (rq.allowExternal /\ NoLocation(rq))
            => /\ ~Issued(rq, {"fetch.ors.geocode", "fetch.ors.directions",
                               "fetch.serpapi"})
               /\ IF Len(rq.calls) = geo
                  THEN rq.pc = "embed"
                  ELSE rq.calls[geo + 1] = "embedContent"
               /\ (Done(rq) /\ rq.resp.status = 200)
                  => \/ /\ rq.gate = "refuse"
                        /\ rq.resp.output_text = domainRefusal(rq.language)
                     \/ /\ rq.gate = "proceed"
                        /\ Issued(rq, GenerationCalls)

C18_Witness ==
    \E r \in DOMAIN req :
        /\ req[r].allowExternal
        /\ NoLocation(req[r])
        /\ Done(req[r])
        /\ req[r].resp.status = 200
        /\ req[r].gate = "proceed"
        /\ Issued(req[r], GenerationCalls)

\* the request was routed to an adapter whose key is not set
\* (src/api/rag-chat.mjs 158, 186)
KeyMissing(rq) ==
    /\ rq.allowExternal
    /\ \/ rq.intent = "directions" /\ ~env.ORS_KEY
       \/ rq.intent = "web" /\ ~env.SERPAPI_KEY

(***************************************************************************)
(* C19: when the key of the directions or of the web-search adapter is not *)
(* set, a request routed to that adapter makes no external call and raises *)
(* no error: it is answered 200 with the adapter's "not configured"        *)
(* message in the request's language and an empty list of sources.         *)
(***************************************************************************)
C19_SoftDependency ==
    \A r \in DOMAIN req :
        LET rq == req[r]
            message == IF rq.intent = "directions"
                       THEN "directionsNotConfigured" ELSE "webNotConfigured"
        IN  KeyMissing(rq)
            => /\ ~Issued(rq, AdapterCalls \cup EmbeddingCalls
                              \cup RetrievalCalls \cup GenerationCalls)
               /\ rq.pc \in {"save_assistant", "done"}
               /\ Done(rq) => /\ rq.resp.status = 200
                              /\ rq.resp.error = ""
                              /\ rq.resp.output_text = Text(message, rq.language)
                              /\ rq.resp.sources = <<>>

C19_Witness ==
    \E r \in DOMAIN req :
        /\ KeyMissing(req[r])
        /\ req[r].intent = "directions"
        /\ req[r].language = "ar"
        /\ Done(req[r])
        /\ req[r].resp.status = 200

\* the same case on the web-search adapter
C19_WitnessWeb ==
    \E r \in DOMAIN req :
        /\ KeyMissing(req[r])
        /\ req[r].intent = "web"
        /\ req[r].language = "fr"
        /\ Done(req[r])
        /\ req[r].resp.output_text = Text("webNotConfigured", "fr")

(***************************************************************************)
(* Specification of the conversation sent to the model: one request of     *)
(* each revision with one to three turns, one of them longer than          *)
(* MAX_MSG_LEN, followed up to the point where the conversation is built   *)
(***************************************************************************)
\* a turn text of MAX_MSG_LEN + 1 characters
tLong == [i \in 1..(MAX_MSG_LEN + 1) |-> "x"]

TurnMessageLists ==
    { << Turn("user", tHelp) >>,
      << Turn("assistant", tOk), Turn("user", tHelp) >>,
      << Turn("assistant", tLong), Turn("user", tHelp) >>,
      << Turn("user", tBus), Turn("assistant", tOk), Turn("user", tHelp) >>,
      << Turn("user", tHelp), Turn("assistant", tOk), Turn("assistant", tOk) >> }

ReceiveTurns(r) ==
    /\ Arrive(r, {"10.0.0.1"}, {"POST"}, TurnMessageLists)
    /\ req'[r].keyOk /\ ~req'[r].chat_id /\ req'[r].language = "en"

InitTurns ==
    /\ rev \in {"api", "keyed", "plain"}
    /\ env = IF rev = "api" THEN CHOOSE e \in ApiEnvs : ~e.STRICT_DOMAIN
             ELSE OtherEnv
    /\ day = 1
    /\ request_log = [k \in Days \X IPs |-> 0]
    /\ req = [r \in 1..1 |-> Idle]

NextTurns ==
    \/ \E r \in DOMAIN req : ReceiveTurns(r)
    \/ \E r \in DOMAIN req : apiHandler_start(r)
    \/ \E r \in DOMAIN req : apiHandler_saveUser(r)
    \/ \E r \in DOMAIN req : apiHandler_route(r)
    \/ \E r \in DOMAIN req : apiHandler_embed(r)
    \/ \E r \in DOMAIN req, c \in Cats : apiHandler_rpcSettle(r, c)
    \/ \E r \in DOMAIN req : apiHandler_gate(r)
    \/ \E r \in DOMAIN req : keyedHandler_start(r)
    \/ \E r \in DOMAIN req : enforceRateLimit_insert(r)
    \/ \E r \in DOMAIN req : enforceRateLimit_count(r)
    \/ \E r \in DOMAIN req : keyedHandler_saveUser(r)
    \/ \E r \in DOMAIN req : keyedHandler_embed(r)
    \/ \E r \in DOMAIN req, c \in Cats : keyedHandler_rpcSettle(r, c)
    \/ \E r \in DOMAIN req : keyedHandler_context(r)
    \/ \E r \in DOMAIN req : plainHandler_start(r)
    \/ \E r \in DOMAIN req : plainHandler_saveUser(r)
    \/ \E r \in DOMAIN req : plainHandler_embed(r)
    \/ \E r \in DOMAIN req, c \in Cats : plainHandler_rpcSettle(r, c)
    \/ \E r \in DOMAIN req : plainHandler_context(r)

SpecTurns == InitTurns /\ [][NextTurns]_vars

\* the conversation of the request has been built
Conversed(rq) == rq.history # <<>>

(***************************************************************************)
(* C20: the conversation sent to the model is the style message, then the  *)
(* context message, then exactly the last 2 turns of the request (all of   *)
(* them when there are fewer than 2) in their original order, the text of  *)
(* each cut to the maximum message length.  src/rag-chat.mjs 62-67 sends   *)
(* every turn of the request, and neither it nor src/api/rag-chat.mjs      *)
(* 309-313 cuts the texts.                                                 *)
(***************************************************************************)
C20_TurnWindow ==
    \A r \in DOMAIN req :
        LET rq == req[r]
            n == Len(rq.messages)
            kept == IF n < 2 THEN n ELSE 2
        IN  Conversed(rq)
            => /\ Len(rq.history) = 2 + kept
               /\ rq.history[1].kind = "style"
               /\ rq.history[2].kind = "context"
               /\ \A i \in 1..kept :
                     LET turn == rq.messages[n - kept + i]
                         sent == rq.history[2 + i]
                     IN  /\ sent.kind = "turn"
                         /\ sent.role = turn.role
                         /\ Len(sent.text) <= MAX_MSG_LEN
                         /\ sent.text = SubSeq(turn.content, 1, Len(sent.text))
                         /\ Len(sent.text) < MAX_MSG_LEN
                            => sent.text = turn.content

\* the failure and degraded messages a response can carry: rate-limit
\* rejection, quota apology, adapter not configured, usage hint, geocoding
\* and routing failure, domain refusal
FailureMessages ==
    {"tooManyRequests", "rateLimitReached", "pleaseWait",
     "directionsNotConfigured", "webNotConfigured", "directionsUsage",
     "couldntGeocode", "noRouteFound", "domainRefusal"}

\* the texts of the response that the caller is shown
Shown(rq) == {rq.resp.message, rq.resp.output_text}

(***************************************************************************)
(* C21: every failure or degraded message of a response (rate-limit        *)
(* rejection, generation quota apology, adapter not configured, directions *)
(* usage hint, geocoding or routing failure, domain refusal) is written in *)
(* the request's language, for each of en, fr, ar.  src/api/rag-chat.mjs   *)
(* 180-181 and 341 answer in English whatever the language.                *)
(***************************************************************************)
C21_FailuresLocalized ==
    \A r \in DOMAIN req :
        LET rq == req[r]
        IN  Done(rq)
            => \A t \in Shown(rq) :
                  t.msg \in FailureMessages => t.lang = rq.language

\* the request was routed to the directions adapter with a text that matches
\* none of the three templates of parseFromTo
NoTemplate(rq) ==
    /\ rq.allowExternal
    /\ rq.intent = "directions"
    /\ ~parseFromTo(rq.lastUser)

\* the request made no geocoding or routing call and is answered 200 with
\* the usage hint in its language and no sources
UsageHint(rq) ==
    /\ ~Issued(rq, AdapterCalls)
    /\ rq.pc \in {"save_assistant", "done"}
    /\ Done(rq) => /\ rq.resp.status = 200
                   /\ rq.resp.output_text = Text("directionsUsage", rq.language)
                   /\ rq.resp.sources = <<>>

(***************************************************************************)
(* C22: a request routed to Directions whose text matches none of the      *)
(* three "from X to Y" templates makes no geocoding or routing call and is *)
(* answered with the localized usage hint and no sources, when the key of  *)
(* the directions adapter is set.                                          *)
(***************************************************************************)
C22_UsageHint ==
    \A r \in DOMAIN req :
        (NoTemplate(req[r]) /\ env.ORS_KEY) => UsageHint(req[r])

C22_Witness ==
    \E r \in DOMAIN req :
        /\ NoTemplate(req[r])
        /\ env.ORS_KEY
        /\ req[r].language = "fr"
        /\ Done(req[r])
        /\ req[r].resp.output_text = Text("directionsUsage", "fr")

\* C22 as stated, whatever the key: without the key the answer is the
\* "not configured" message (src/api/rag-chat.mjs 158-167 comes first)
C22_AsStated ==
    \A r \in DOMAIN req : NoTemplate(req[r]) => UsageHint(req[r])

\* the first position of character c in s, Len(s) + 1 when there is none
IndexOf(s, c) ==
    IF \E i \in 1..Len(s) : s[i] = c
    THEN CHOOSE i \in 1..Len(s) : s[i] = c /\ \A j \in 1..(i - 1) : s[j] # c
    ELSE Len(s) + 1

\* the milliseconds of a duration written "7s" or "7.5s" (at most three
\* decimals)
DurationMs(d) ==
    LET unit == IndexOf(d, "s")
        dot == IndexOf(d, ".")
        whole == Number(SubSeq(d, 1, Min(dot, unit) - 1))
        decimals == IF dot < unit THEN SubSeq(d, dot + 1, unit - 1) ELSE <<>>
        scale == CASE Len(decimals) = 0 -> 0
                   [] Len(decimals) = 1 -> 100
                   [] Len(decimals) = 2 -> 10
                   [] OTHER -> 1
    IN  whole * 1000 + Number(decimals) * scale

\* the request waited between its two generation calls
WaitedBetween(rq) ==
    \E i, j, k \in 1..Len(rq.calls) :
        /\ i < j /\ j < k
        /\ rq.calls[i] \in GenerationCalls
        /\ rq.calls[j] = "setTimeout"
        /\ rq.calls[k] \in GenerationCalls

(***************************************************************************)
(* C23: a request issues at most two generation calls; the second is       *)
(* issued only after the first failed with 429 and only after the retry    *)
(* delay has elapsed, the one the backend gave or a fixed default when it  *)
(* gave none; a first call that fails with another error is not retried    *)
(* and the request ends with 500.  src/rag-chat.mjs 302 waits 2000 ms      *)
(* whatever the backend gave, and src/api/rag-chat.mjs 54 reads "7.5s" as  *)
(* 5 seconds.                                                              *)
(***************************************************************************)
C23_BoundedRetry ==
    \A r \in DOMAIN req :
        LET rq == req[r]
        IN  /\ Len(rq.gen) <= 2
            /\ Len(GenerationSequence(rq)) = Len(rq.gen)
            /\ Len(rq.gen) = 2
               => /\ rq.gen[1].outcome = "429"
                  /\ WaitedBetween(rq)
                  /\ rq.waited > 0
                  /\ rq.retryDelay # <<>>
                     => rq.waited >= DurationMs(rq.retryDelay)
            /\ (Len(rq.gen) >= 1 /\ rq.gen[1].outcome = "error")
               => /\ Len(rq.gen) = 1
                  /\ Done(rq)
                  /\ rq.resp.status = 500

(***************************************************************************)
(* Specification of the requests of one caller kept until the end: more    *)
(* requests than the ceiling allows, all in flight together, days passing  *)
(***************************************************************************)
\* POST requests with the app key and no user message, taking the slots in
\* order
ReceivePass(r) ==
    /\ \A q \in 1..(r - 1) : req[q].pc # "idle"
    /\ Arrive(r, {"10.0.0.1"}, {"POST"}, {<<>>})
    /\ req'[r].keyOk /\ ~req'[r].chat_id /\ req'[r].language = "en"

InitPass ==
    /\ rev = "keyed"
    /\ env = OtherEnv
    /\ day = 1
    /\ request_log = [k \in Days \X IPs |-> 0]
    /\ req = [r \in 1..(MAX_REQ_PER_IP_DAY + MaxOver) |-> Idle]

NextPass ==
    \/ NextDay
    \/ \E r \in DOMAIN req : ReceivePass(r)
    \/ \E r \in DOMAIN req : keyedHandler_start(r)
    \/ \E r \in DOMAIN req : enforceRateLimit_insert(r)
    \/ \E r \in DOMAIN req : enforceRateLimit_count(r)

SpecPass == InitPass /\ [][NextPass]_vars

\* the requests of the caller on day d that the limiter let through
Passed(d, ip) ==
    {r \in DOMAIN req :
        /\ req[r].day = d /\ req[r].ip = ip
        /\ Issued(req[r], {"request_log.count"})
        /\ ~(Done(req[r]) /\ req[r].resp.status = 429)}

C24_WitnessFull ==
    \E d \in Days :
        /\ Cardinality(Passed(d, "10.0.0.1")) = MAX_REQ_PER_IP_DAY
        /\ \E r \in DOMAIN req :
              req[r].day = d /\ Done(req[r]) /\ req[r].resp.status = 429

\* the turns of the given role that the request wrote to the message log
Written(rq, role) == SelectSeq(rq.saved, LAMBDA m : m.role = role)

\* the request carries a chat_id and has a last user message
Logged(rq) == Accepted(rq) /\ rq.chat_id /\ rq.lastUser # <<>>

(***************************************************************************)
(* C25: a request that carries a chat_id and has a non-empty last user     *)
(* message writes the user turn to the message log before any adapter,     *)
(* embedding, retrieval or generation call; its 200 response is preceded   *)
(* by exactly one assistant write, whose content is the response's         *)
(* output_text; and when it ends in an error it has written no assistant   *)
(* turn.                                                                   *)
(***************************************************************************)
C25_MessageLogOrdering ==
    \A r \in DOMAIN req :
        LET rq == req[r]
            work == Positions(rq, AdapterCalls \cup EmbeddingCalls
                                  \cup RetrievalCalls \cup GenerationCalls)
            writes == Positions(rq, {"messages.insert"})
        IN  Logged(rq)
            => /\ work # {}
                  => /\ \E w \in writes : \A i \in work : w < i
                     /\ rq.saved[1].role = "user"
                     /\ rq.saved[1].user = rq.lastUser
               /\ Len(Written(rq, "user")) <= 1
               /\ (Done(rq) /\ rq.resp.status = 200)
                  => /\ Len(Written(rq, "assistant")) = 1
                     /\ Written(rq, "assistant")[1].text = rq.resp.output_text
                     /\ rq.calls[Len(rq.calls)] = "messages.insert"
                     /\ rq.saved[Len(rq.saved)].role = "assistant"
               /\ (Done(rq) /\ rq.resp.status # 200)
                  => Written(rq, "assistant") = <<>>

C25_Witness ==
    \E r \in DOMAIN req :
        /\ Logged(req[r])
        /\ Done(req[r])
        /\ req[r].resp.status = 200
        /\ Issued(req[r], GenerationCalls)
        /\ Len(req[r].saved) = 2

\* a logged request that ends in an error after its generation call
C25_WitnessError ==
    \E r \in DOMAIN req :
        /\ Logged(req[r])
        /\ Done(req[r])
        /\ req[r].resp.status = 500
        /\ Issued(req[r], GenerationCalls)
        /\ Len(req[r].saved) = 1

(***************************************************************************)
(* C26: for every request that reaches generation, the last user-role turn *)
(* of the request, whose text is the retrieval query, is one of the turns  *)
(* in the window sent to the generation backend, whatever the roles of the *)
(* request's turns.  messages.slice(-2) holds no user turn when the last   *)
(* two turns are the assistant's.                                          *)
(***************************************************************************)
C26_QueryInWindow ==
    \A r \in DOMAIN req :
        LET rq == req[r]
        IN  (Issued(rq, GenerationCalls) /\ LastUser(rq.messages) # <<>>)
            => \E i \in 1..Len(rq.history) :
                  /\ rq.history[i].kind = "turn"
                  /\ rq.history[i].role = "user"
                  /\ rq.history[i].text = LastUser(rq.messages)

====
